---------------------------- MODULE Spec2Model ----------------------------
(***************************************************************************)
(* A model of the day planner's interval engine: the Timeline collection   *)
(* (src/js/core/Timeline.js), the Block entity (same file, second half)    *)
(* and the shuffle strategies (src/js/shuffle/ShuffleManager.js).          *)
(*                                                                         *)
(* Time is counted in ticks.  The program computes with floating point     *)
(* hours; every value it derives from quarter-hour inputs is a multiple of *)
(* 1/240 hour as long as at most six blocks share a gap, so one tick is    *)
(* 1/240 hour: Q ticks are a quarter hour, HOUR ticks an hour, DAY ticks   *)
(* the 24-hour day.                                                        *)
(***************************************************************************)
EXTENDS Integers, Sequences, FiniteSets, TLC

Q == 15 * 4
HOUR == 4 * Q
DAY == 24 * HOUR

(***************************************************************************)
(* Bounds of the model.                                                    *)
(***************************************************************************)
MaxBlocks == 2

\* The number of calls a behaviour makes.
MaxCalls == 4

VARIABLES
  blocks,             \* Timeline.blocks: the Map id -> Block, in insertion order
  isWrappingEnabled,  \* Timeline.isWrappingEnabled
  allowOverlap,       \* Timeline.allowOverlap
  last,               \* the last call: what was called, with what, and what it returned
  calls,              \* the number of calls made
  search,             \* the search loop of a strategy that is under way, for one block
  use24HourFormat,    \* Timeline.use24HourFormat
  saved,              \* the detail of the last 'timeline:save-current' event
  gesture             \* the pointer gesture under way and the resize flag of the Timeline

vars == <<blocks, isWrappingEnabled, allowOverlap, last, calls, search, use24HourFormat, saved,
          gesture>>

(***************************************************************************)
(* Arithmetic of the source language.                                      *)
(***************************************************************************)
\* JavaScript's %: the result takes the sign of the dividend.
JsMod(a, n) == IF a >= 0 THEN a % n ELSE 0 - ((0 - a) % n)

Min(a, b) == IF a <= b THEN a ELSE b
Max(a, b) == IF a >= b THEN a ELSE b

\* Math.round(h * 4) / 4 on a tick count: the nearest quarter hour, halves up.
QuarterRound(t) == ((2 * t + Q) \div (2 * Q)) * Q

(***************************************************************************)
(* Colors.  A hex color is the triple of its channels, an HSL color the    *)
(* triple hexToHsl prints.                                                 *)
(***************************************************************************)
Max3(a, b, c) == Max(a, Max(b, c))
Min3(a, b, c) == Min(a, Min(b, c))

\* Math.round of the non-negative fraction num / den.
RoundDiv(num, den) == (2 * num + den) \div (2 * den)

HexToHsl(hex) ==
  LET r == hex.r
      g == hex.g
      b == hex.b
      mx == Max3(r, g, b)
      mn == Min3(r, g, b)
      d == mx - mn
      l == RoundDiv(100 * (mx + mn), 510)
      s == IF d = 0 THEN 0
           ELSE IF mx + mn > 255 THEN RoundDiv(100 * d, 510 - mx - mn)
           ELSE RoundDiv(100 * d, mx + mn)
      h == IF d = 0 THEN 0
           ELSE IF mx = r THEN RoundDiv(60 * ((g - b) + (IF g < b THEN 6 * d ELSE 0)), d)
           ELSE IF mx = g THEN RoundDiv(60 * ((b - r) + 2 * d), d)
           ELSE RoundDiv(60 * ((r - g) + 4 * d), d)
  IN [kind |-> "hsl", h |-> h, s |-> s, l |-> l]


(***************************************************************************)
(* The collection.  Timeline.blocks is a Map: a block keeps its place in   *)
(* the iteration order from its insertion to its removal.                  *)
(***************************************************************************)
Ids == 1..MaxBlocks

\* The ids of the scratch blocks 'temp-test' and 'temp-adjust': no block of the
\* collection has them.
TempId == 0

\* hasConflict's excludeId when the caller gives none (null).
NoExclude == 0 - 1

BlockIds(bs) == {bs[i].id : i \in 1..Len(bs)}
HasBlock(bs, id) == \E i \in 1..Len(bs) : bs[i].id = id
IndexOf(bs, id) == CHOOSE i \in 1..Len(bs) : bs[i].id = id
GetBlock(bs, id) == bs[IndexOf(bs, id)]

\* The block with that id replaced, in place.
SetBlock(bs, id, b) == [i \in 1..Len(bs) |-> IF bs[i].id = id THEN b ELSE bs[i]]

\* A removal that spares a locked block.
DeleteUnlocked(bs, id) == SelectSeq(bs, LAMBDA b : b.id # id \/ b.isLocked)

\* The collection without the block with that id.
DeleteBlock(bs, id) == SelectSeq(bs, LAMBDA b : b.id # id)

\* Timeline.generateUniqueId: a time stamp and a random suffix, an id no block
\* of the collection has.  The model takes the smallest such id of its pool.
GenerateUniqueId(bs) == CHOOSE id \in Ids : id \notin BlockIds(bs) /\ \A j \in Ids : j < id => j \in BlockIds(bs)

(***************************************************************************)
(* Block                                                                   *)
(***************************************************************************)
\* A constructor that validates the title only.
BlockDataLoose(data) == data.title # ""

\* The conditions under which the constructor does not throw.
BlockDataValid(data) ==
  /\ data.title # ""
  /\ data.start >= 0
  /\ data.duration > 0

\* The fields the constructor sets.
NewBlock(data) ==
  [id |-> data.id, title |-> data.title, start |-> data.start,
   duration |-> data.duration, color |-> data.color, isLocked |-> FALSE]

\* A Block.update that assigns every field, whether the data holds it or not.
BlockUpdateEveryField(b, data) ==
  [b EXCEPT !.title = data.title, !.start = data.start, !.duration = data.duration,
            !.color = data.color]

\* Block.update: every field the data holds is assigned.
\* An update that moves the block by the start it is given.
BlockUpdateBy(b, data) ==
  [b EXCEPT !.title = IF "title" \in data.has THEN data.title ELSE @,
            !.start = IF "start" \in data.has THEN @ + data.start ELSE @,
            !.duration = IF "duration" \in data.has THEN data.duration ELSE @,
            !.color = IF "color" \in data.has THEN data.color ELSE @]

BlockUpdate(b, data) ==
  [b EXCEPT !.title = IF "title" \in data.has THEN data.title ELSE @,
            !.start = IF "start" \in data.has THEN data.start ELSE @,
            !.duration = IF "duration" \in data.has THEN data.duration ELSE @,
            !.color = IF "color" \in data.has THEN data.color ELSE @]

\* Block.duplicate: the data of the copy, which starts where the block ends.
BlockDuplicate(b, newId) ==
  [id |-> newId, title |-> b.title, start |-> JsMod(b.start + b.duration, DAY),
   duration |-> b.duration, color |-> b.color]

(***************************************************************************)
(* Timeline: the conflict test                                             *)
(***************************************************************************)
\* The test for a day that does not wrap, whatever the setting.
BlocksOverlapPlain(a, b, wrap) ==
  a.start < b.start + b.duration /\ a.start + a.duration > b.start

\* A test that, when one block alone crosses midnight, always compares as if
\* the first one did.
BlocksOverlapFirstWraps(a, b, wrap) ==
  IF ~wrap
  THEN a.start < b.start + b.duration /\ a.start + a.duration > b.start
  ELSE LET aStart == JsMod(a.start, DAY)
           aEnd == JsMod(aStart + a.duration, DAY)
           bStart == JsMod(b.start, DAY)
           bEnd == JsMod(bStart + b.duration, DAY)
           aWraps == aEnd <= aStart
           bWraps == bEnd <= bStart
       IN IF a.duration >= DAY \/ b.duration >= DAY THEN TRUE
          ELSE IF ~aWraps /\ ~bWraps THEN aStart < bEnd /\ aEnd > bStart
          ELSE IF aWraps /\ bWraps THEN TRUE
          ELSE bStart <= aEnd \/ bEnd > aStart

BlocksOverlap(a, b, wrap) ==
  IF ~wrap
  THEN a.start < b.start + b.duration /\ a.start + a.duration > b.start
  ELSE LET aStart == JsMod(a.start, DAY)
           aEnd == JsMod(aStart + a.duration, DAY)
           bStart == JsMod(b.start, DAY)
           bEnd == JsMod(bStart + b.duration, DAY)
           aWraps == aEnd <= aStart
           bWraps == bEnd <= bStart
       IN IF a.duration >= DAY \/ b.duration >= DAY THEN TRUE
          ELSE IF ~aWraps /\ ~bWraps THEN aStart < bEnd /\ aEnd > bStart
          ELSE IF aWraps /\ bWraps THEN TRUE
          ELSE IF aWraps THEN bStart <= aEnd \/ bEnd > aStart
          ELSE aStart <= bEnd \/ aEnd > bStart

\* A hasConflict that skips the candidate's own id only, not the excluded one.
HasConflictNoExclude(bs, block, excludeId, overlap, wrap) ==
  /\ ~overlap
  /\ \E i \in 1..Len(bs) : bs[i].id # block.id /\ BlocksOverlap(block, bs[i], wrap)

\* A hasConflict without its early return.
HasConflictAlways(bs, block, excludeId, overlap, wrap) ==
  \E i \in 1..Len(bs) :
    /\ bs[i].id # excludeId
    /\ bs[i].id # block.id
    /\ BlocksOverlap(block, bs[i], wrap)

HasConflict(bs, block, excludeId, overlap, wrap) ==
  IF overlap \/ Len(bs) = 0 THEN FALSE
  ELSE \E i \in 1..Len(bs) :
         /\ bs[i].id # excludeId
         /\ bs[i].id # block.id
         /\ BlocksOverlap(block, bs[i], wrap)

(***************************************************************************)
(* Timeline: the operations as functions of the collection.  Each yields   *)
(* the collection after the call and what the call returned: "true",       *)
(* "false", "null", "id" (a new id) or "throws" (an exception left the     *)
(* call).                                                                  *)
(***************************************************************************)
\* Whether updateBlock runs its conflict test: overlap is disallowed and the data
\* holds a start or a duration that differs from the block's.
UpdateNeedsTest(b, data, overlap) ==
  /\ ~overlap
  /\ \/ "start" \in data.has /\ data.start # b.start
     \/ "duration" \in data.has /\ data.duration # b.duration

\* The scratch block updateBlock tests.
UpdateTestData(b, data) ==
  [id |-> TempId, title |-> b.title,
   start |-> IF "start" \in data.has THEN data.start ELSE b.start,
   duration |-> IF "duration" \in data.has THEN data.duration ELSE b.duration,
   color |-> b.color]

\* updateBlock turns a hex color of the data into HSL before it is applied.
UpdateConvertColor(data) ==
  IF "color" \in data.has /\ data.color.kind = "hex"
  THEN [data EXCEPT !.color = HexToHsl(data.color)]
  ELSE data

\* An updateBlock without the refusal of locked blocks.
UpdateRefusesNone(b) == FALSE

\* updateBlock's guard on the lock flag.
UpdateRefusesLocked(b) == b.isLocked

UpdateBlockCore(bs, id, data, overlap, wrap) ==
  IF ~HasBlock(bs, id) THEN [bs |-> bs, result |-> "false", reason |-> "unknown"]
  ELSE LET b == GetBlock(bs, id)
           t == UpdateTestData(b, data)
       IN IF UpdateRefusesLocked(b) THEN [bs |-> bs, result |-> "false", reason |-> "locked"]
          ELSE IF UpdateNeedsTest(b, data, overlap) /\ ~BlockDataValid(t)
          THEN [bs |-> bs, result |-> "throws", reason |-> "invalid"]
          ELSE IF UpdateNeedsTest(b, data, overlap) /\ HasConflict(bs, NewBlock(t), id, overlap, wrap)
          THEN [bs |-> bs, result |-> "false", reason |-> "conflict"]
          ELSE [bs |-> SetBlock(bs, id, BlockUpdate(b, UpdateConvertColor(data))),
                result |-> "true", reason |-> ""]

\* The data addBlock hands to the constructor.
AddCompleteData(bs, blockData) ==
  [id |-> GenerateUniqueId(bs), title |-> blockData.title, start |-> blockData.start,
   duration |-> blockData.duration, color |-> HexToHsl(blockData.color)]

\* An addBlock without the conflict test.
AddRejectsNone(bs, block, overlap, wrap) == FALSE

\* Whether addBlock discards the block it built.
AddRejects(bs, block, overlap, wrap) == ~overlap /\ HasConflict(bs, block, NoExclude, overlap, wrap)

AddBlockCore(bs, blockData, overlap, wrap) ==
  LET data == AddCompleteData(bs, blockData)
  IN IF ~BlockDataValid(data) THEN [bs |-> bs, result |-> "throws", newId |-> TempId]
     ELSE IF AddRejects(bs, NewBlock(data), overlap, wrap)
     THEN [bs |-> bs, result |-> "null", newId |-> TempId]
     ELSE [bs |-> Append(bs, NewBlock(data)), result |-> "id", newId |-> data.id]

\* A removeBlock without the lookup of the id.
RemoveBlockUnguarded(bs, id) == [bs |-> DeleteBlock(bs, id), result |-> "true"]

\* Timeline.removeBlock.
RemoveBlockCore(bs, id) ==
  IF ~HasBlock(bs, id) THEN [bs |-> bs, result |-> "false"]
  ELSE [bs |-> DeleteBlock(bs, id), result |-> "true"]

\* One step of adjustStartToAvoidConflicts: the start it tries after a conflict.
AdjustNextStart(start, duration, wrap) ==
  LET next == JsMod(start + Q, DAY)
  IN IF ~wrap /\ next + duration > DAY THEN 0 ELSE next

(***************************************************************************)
(* adjustStartToAvoidConflicts tests a start and, on a conflict, calls     *)
(* itself with the next start, with no bound on the calls.  The start it   *)
(* tries is a function of the start before: the k-th start tried is k      *)
(* steps from the first.  Within AdjustHorizon steps a start comes back    *)
(* (at most DAY / Q starts share the first start's offset from the quarter *)
(* hours, at most DAY / Q follow a reset to 0), so when every one of them  *)
(* conflicts the calls never end: the call stack overflows and a           *)
(* RangeError leaves duplicateBlock ("overflow").  steps counts the        *)
(* quarter-hour advances made.                                             *)
(***************************************************************************)
AdjustHorizon == 2 * (DAY \div Q)

\* The first n starts tried, from start on.
RECURSIVE AdjustStartsTried(_, _, _, _)
AdjustStartsTried(start, n, duration, wrap) ==
  IF n = 1 THEN <<start>>
  ELSE CHOOSE s \in { left \o AdjustStartsTried(AdjustNextStart(left[Len(left)], duration, wrap),
                                                n - (n \div 2), duration, wrap) :
                       left \in {AdjustStartsTried(start, n \div 2, duration, wrap)} } : TRUE

\* A search of adjustStartToAvoidConflicts that sees no conflict.
AdjustConflictNone(bs, data, start, overlap, wrap) == FALSE

\* The conflict test of adjustStartToAvoidConflicts on its scratch block.
AdjustConflict(bs, data, start, overlap, wrap) ==
  HasConflict(bs, NewBlock([data EXCEPT !.id = TempId, !.start = start]), NoExclude, overlap, wrap)

AdjustStartToAvoidConflicts(bs, data, overlap, wrap) ==
  IF ~BlockDataValid(data) THEN [kind |-> "throws", start |-> data.start, steps |-> 0]
  ELSE IF ~AdjustConflict(bs, data, data.start, overlap, wrap)
  THEN [kind |-> "ok", start |-> data.start, steps |-> 0]
  ELSE LET tried == AdjustStartsTried(data.start, AdjustHorizon + 1, data.duration, wrap)
           free == {k \in 1..Len(tried) : ~AdjustConflict(bs, data, tried[k], overlap, wrap)}
       IN IF free = {}
          THEN [kind |-> "overflow", start |-> data.start, steps |-> AdjustHorizon + 1]
          ELSE LET k == CHOOSE j \in free : \A i \in free : j <= i
               IN [kind |-> "ok", start |-> tried[k], steps |-> k - 1]

DuplicateBlockCore(bs, id, overlap, wrap) ==
  IF ~HasBlock(bs, id)
  THEN [bs |-> bs, result |-> "null", newId |-> TempId, steps |-> 0, overflow |-> FALSE]
  ELSE LET newBlockData == BlockDuplicate(GetBlock(bs, id), GenerateUniqueId(bs))
           adj == IF ~overlap
                  THEN AdjustStartToAvoidConflicts(bs, newBlockData, overlap, wrap)
                  ELSE [kind |-> "ok", start |-> newBlockData.start, steps |-> 0]
           adjusted == [newBlockData EXCEPT !.start = adj.start]
       IN IF adj.kind # "ok" \/ ~BlockDataValid(adjusted)
          THEN [bs |-> bs, result |-> "throws", newId |-> TempId, steps |-> adj.steps,
                overflow |-> (adj.kind = "overflow")]
          ELSE [bs |-> Append(bs, NewBlock(adjusted)), result |-> "id",
                newId |-> newBlockData.id, steps |-> adj.steps, overflow |-> FALSE]

(***************************************************************************)
(* ShuffleManager: the conflict test of the strategies                     *)
(***************************************************************************)
\* The standard test alone, whichever range wraps.
RangesOverlapStandard(start1, end1, start2, end2, range1Wraps, range2Wraps, allowWrapAround) ==
  start1 < end2 /\ end1 > start2

\* How timeRangesOverlap decides once the ends are normalised.
RangesOverlapCases(start1, end1, start2, end2, range1Wraps, range2Wraps, allowWrapAround) ==
  IF ~range1Wraps /\ ~range2Wraps THEN start1 < end2 /\ end1 > start2
  ELSE IF allowWrapAround
  THEN IF range1Wraps /\ range2Wraps THEN TRUE
       ELSE IF range1Wraps THEN start2 < end1 \/ end2 > start1
       ELSE start1 < end2 \/ end1 > start2
  ELSE FALSE

TimeRangesOverlap(start1, end1, start2, end2, allowWrapAround) ==
  LET s1 == JsMod(start1, DAY)
      s2 == JsMod(start2, DAY)
      e1 == IF JsMod(end1, DAY) = 0 THEN DAY ELSE JsMod(end1, DAY)
      e2 == IF JsMod(end2, DAY) = 0 THEN DAY ELSE JsMod(end2, DAY)
      range1Wraps == e1 <= s1
      range2Wraps == e2 <= s2
      c1 == IF ~allowWrapAround /\ range1Wraps THEN DAY ELSE e1
      c2 == IF ~allowWrapAround /\ range2Wraps THEN DAY ELSE e2
  IN RangesOverlapCases(s1, c1, s2, c2, range1Wraps, range2Wraps, allowWrapAround)

\* placedBlocks is a list of {id, start, duration}.
CheckForTimeConflicts(placedBlocks, start, duration, wrapEnabled) ==
  IF Len(placedBlocks) = 0 THEN FALSE
  ELSE \E i \in 1..Len(placedBlocks) :
         TimeRangesOverlap(start, JsMod(start + duration, DAY), placedBlocks[i].start,
                           JsMod(placedBlocks[i].start + placedBlocks[i].duration, DAY),
                           wrapEnabled)

Placed(id, start, duration) == [id |-> id, start |-> start, duration |-> duration]

GetLockedBlocksAsPlaced(bs) ==
  LET locked == SelectSeq(bs, LAMBDA b : b.isLocked)
  IN [i \in 1..Len(locked) |-> Placed(locked[i].id, locked[i].start, locked[i].duration)]

\* The quarter hours of the day, which the scans "for (hour = 0; hour < 24;
\* hour += 0.25)" visit in order.
Quarters == {k * Q : k \in 0..((DAY \div Q) - 1)}

\* The least element of a non-empty set of numbers.
Least(S) == CHOOSE x \in S : \A y \in S : x <= y

\* findValidPosition: the preferred start, else the first free quarter hour, else
\* the preferred start all the same.
FindValidPosition(placedBlocks, preferredStart, duration, wrap) ==
  IF ~CheckForTimeConflicts(placedBlocks, preferredStart, duration, wrap) THEN preferredStart
  ELSE LET free == {h \in Quarters : /\ ~CheckForTimeConflicts(placedBlocks, h, duration, wrap)
                                      /\ (wrap \/ h + duration <= DAY)}
       IN IF free # {} THEN Least(free) ELSE preferredStart

\* The start of the scans "for (hour = 0; hour < 24; hour += 0.25)" that look
\* for a quarter hour without a conflict: the quarter hours that qualify.
FreeQuarters(placedBlocks, duration, wrap) ==
  {h \in Quarters : ~CheckForTimeConflicts(placedBlocks, h, duration, wrap)}

(***************************************************************************)
(* ShuffleManager.findBestGap                                              *)
(***************************************************************************)
\* The edges of the placed blocks, in the order findBestGap pushes them.
BlockTimePoints(placedBlocks) ==
  [k \in 1..(2 * Len(placedBlocks)) |->
     LET block == placedBlocks[(k + 1) \div 2]
         blockEnd == JsMod(block.start + block.duration, DAY)
     IN IF k % 2 = 1 THEN [time |-> JsMod(block.start, DAY), type |-> "start"]
        ELSE [time |-> IF blockEnd = 0 /\ block.duration > 0 THEN DAY ELSE blockEnd,
              type |-> "end"]]

\* The day boundaries findBestGap adds with wrapping disabled, unless a point
\* stands there already.
WithBoundaries(points, wrap) ==
  LET at(t) == \E k \in 1..Len(points) : points[k].time = t
      first == IF ~wrap /\ ~at(0) THEN Append(points, [time |-> 0, type |-> "boundary"])
               ELSE points
  IN IF ~wrap /\ ~(\E k \in 1..Len(first) : first[k].time = DAY)
     THEN Append(first, [time |-> DAY, type |-> "boundary"])
     ELSE first

\* Array.prototype.sort by time: stable, so points of one time keep their order.
SortPoints(points) ==
  LET before(i, j) == points[i].time < points[j].time \/ (points[i].time = points[j].time /\ i < j)
      rank(i) == 1 + Cardinality({j \in 1..Len(points) : before(j, i)})
  IN [r \in 1..Len(points) |-> points[CHOOSE i \in 1..Len(points) : rank(i) = r]]

\* The sweep over the sorted points: the gaps found, the blocks open, the last time.
RECURSIVE SweepGaps(_, _, _)
SweepGaps(points, k, acc) ==
  IF k > Len(points) THEN acc
  ELSE LET point == points[k]
           gaps == IF acc.openBlocks = 0 /\ point.time > acc.lastTime
                   THEN Append(acc.gaps, [start |-> acc.lastTime, duration |-> point.time - acc.lastTime])
                   ELSE acc.gaps
           open == IF point.type = "start" THEN acc.openBlocks + 1
                   ELSE IF point.type = "end" THEN Max(0, acc.openBlocks - 1)
                   ELSE acc.openBlocks
       IN SweepGaps(points, k + 1, [gaps |-> gaps, openBlocks |-> open, lastTime |-> point.time])

\* The gap across midnight, which findBestGap adds to the gaps of the sweep
\* when wrapping is enabled, no block is open at the end and the first point
\* lies after 0.
WithWrapGap(points, swept, wrap) ==
  IF wrap /\ Len(points) > 0 /\ swept.openBlocks = 0 /\ points[1].time > 0
  THEN Append(swept.gaps, [start |-> points[Len(points)].time,
                           duration |-> (DAY - points[Len(points)].time) + points[1].time])
  ELSE swept.gaps

\* The gaps between the sorted points.
GapsOf(points, wrap) ==
  WithWrapGap(points, SweepGaps(points, 1, [gaps |-> <<>>, openBlocks |-> 0, lastTime |-> 0]),
              wrap)

\* The gaps of findBestGap.
FindGaps(placedBlocks, wrap) ==
  GapsOf(SortPoints(WithBoundaries(BlockTimePoints(placedBlocks), wrap)), wrap)

\* The gaps long enough for the duration, as places in the list of gaps.
SuitableGaps(gaps, duration) == {k \in 1..Len(gaps) : gaps[k].duration >= duration}

\* The first of the shortest gaps among the suitable ones: the sort by length
\* is stable.
SmallestGap(gaps, suitable) ==
  CHOOSE k \in suitable :
    \A j \in suitable : gaps[k].duration < gaps[j].duration
                        \/ (gaps[k].duration = gaps[j].duration /\ k <= j)

\* The whole hours 0..23 of findBestGap's last resort.
WholeHours == {k * HOUR : k \in 0..((DAY \div HOUR) - 1)}

\* The whole hours at which the block conflicts with nothing and ends within
\* the day when wrapping is disabled.
FreeHours(placedBlocks, duration, wrap) ==
  {h \in WholeHours : /\ ~CheckForTimeConflicts(placedBlocks, h, duration, wrap)
                      /\ ~(~wrap /\ h + duration > DAY)}

\* The start of a set of starts that comes first, or the fallback when the set
\* is empty.
FirstOr(starts, fallback) == IF starts # {} THEN Least(starts) ELSE fallback

\* findBestGap once the gaps are known.
PickGap(gaps, placedBlocks, duration, wrap) ==
  IF SuitableGaps(gaps, duration) # {}
  THEN gaps[SmallestGap(gaps, SuitableGaps(gaps, duration))].start
  ELSE FirstOr(FreeHours(placedBlocks, duration, wrap), 0)

\* A findBestGap whose answer moves with the number of calls made so far.
FindBestGapByCall(placedBlocks, duration, wrap) == calls * HOUR

FindBestGap(placedBlocks, duration, wrap) ==
  IF Len(placedBlocks) = 0 THEN 0
  ELSE PickGap(FindGaps(placedBlocks, wrap), placedBlocks, duration, wrap)

(***************************************************************************)
(* The inputs the model draws.                                             *)
(***************************************************************************)
Red == [kind |-> "hex", r |-> 255, g |-> 0, b |-> 0]
Blue == [kind |-> "hex", r |-> 58, g |-> 134, b |-> 255]

NoColor == [kind |-> "hsl", h |-> 0, s |-> 0, l |-> 0]

\* The blocks callers ask addBlock for: a title, a color and a duration.
AddTemplates ==
  { [title |-> "Work call", color |-> Red, duration |-> HOUR],
    [title |-> "Nap", color |-> Blue, duration |-> 23 * HOUR + 2 * Q] }

\* Malformed requests: no title, no duration, a negative start.
AddMalformed ==
  { [title |-> "", color |-> Red, duration |-> HOUR, start |-> 0],
    [title |-> "Nap", color |-> Red, duration |-> 0, start |-> 0],
    [title |-> "Nap", color |-> Red, duration |-> HOUR, start |-> 0 - Q] }

AddStarts == {0, 2 * HOUR}

AddInputs ==
  { [title |-> t.title, color |-> t.color, duration |-> t.duration, start |-> st] :
      t \in AddTemplates, st \in AddStarts } \cup AddMalformed

\* The places of the grid a click lands on, as hours: a place between two
\* quarter hours, the right edge.
ClickHours == {2 * HOUR + 10, DAY}

NoData == [has |-> {}, title |-> "", start |-> 0, duration |-> 0, color |-> NoColor]

\* The partial data callers hand to updateBlock.
UpdateInputs ==
  { [NoData EXCEPT !.has = {"start"}, !.start = st] : st \in {0, 0 - Q} }
  \cup { [NoData EXCEPT !.has = {"duration"}, !.duration = 0] }
  \cup { [NoData EXCEPT !.has = {"start", "duration"}, !.start = 13 * HOUR,
                           !.duration = 13 * HOUR] }
  \cup { [NoData EXCEPT !.has = {"title", "color"}, !.title = "Nap", !.color = Blue] }

\* The gaps the random strategy may draw before a block: none, five minutes,
\* an hour (it draws any length below an hour and a half).
NoGap == 0 - 1
RandomGaps == {NoGap, Q \div 3, HOUR}

Strategies ==
  {"random", "compact", "spread", "clustered", "timeOfDay", "priority", "energy", "balanced",
   "theme"}

\* The ids callers name: the pool's, and one no block ever has.
UnknownId == MaxBlocks + 1
CallIds == Ids \cup {UnknownId}

(***************************************************************************)
(* The record of the last call.                                            *)
(***************************************************************************)
(***************************************************************************)
(* ShuffleManager: the strategies.  A strategy walks the unlocked blocks;   *)
(* what it carries from one block to the next is the collection, the list   *)
(* of placed blocks, the running start, whether it showed the "Some blocks  *)
(* may overlap due to space constraints" toast, and whether an exception    *)
(* has left it.                                                            *)
(***************************************************************************)
StrategyStart(bs) ==
  [bs |-> bs, placedBlocks |-> GetLockedBlocksAsPlaced(bs), currentStart |-> 0,
   warned |-> FALSE, thrown |-> FALSE, category |-> "none",
   emitted |-> FALSE, savedBlocks |-> <<>>]

\* Data that carries a duration of a quarter of an hour beside the start.
StartAndDuration(s) == [NoData EXCEPT !.has = {"start", "duration"}, !.start = s, !.duration = Q]

\* The data {start: s} the strategies hand to updateBlock.
StartOnly(s) == [NoData EXCEPT !.has = {"start"}, !.start = s]

\* executeStrategy keeps the blocks that are not locked, in insertion order.
ShuffleCandidates(bs) == SelectSeq(bs, LAMBDA b : ~b.isLocked)

\* The orders a Fisher-Yates shuffle of the ids can produce: all of them.
Orders(ids) ==
  {o \in [1..Cardinality(ids) -> ids] : \A i, j \in 1..Cardinality(ids) : i # j => o[i] # o[j]}

\* The next running start of the random and compact strategies.
NextRunningStart(start, duration, overlap, wrap) ==
  IF ~wrap /\ ~overlap THEN Min(DAY, JsMod(start + duration, DAY))
  ELSE JsMod(start + duration, DAY)

\* applyRandomStrategy gives up on a block after this many quarter hours.
RandomMaxAttempts == 24

\* The conflict test of applyRandomStrategy against the placed blocks.
RandomHasConflict(placedBlocks, id, currentStart, duration, overlap, wrap) ==
  /\ ~overlap
  /\ \E i \in 1..Len(placedBlocks) :
       /\ placedBlocks[i].id # id
       /\ TimeRangesOverlap(currentStart, currentStart + duration, placedBlocks[i].start,
                            placedBlocks[i].start + placedBlocks[i].duration, wrap)

\* One block of applyRandomStrategy.  A free start is assigned to the block
\* directly and then handed to updateBlock; with none free in the attempts
\* allowed, updateBlock is asked for the original start and the toast is shown.
RandomPlaceBlock(st, id, gapSize, overlap, wrap) ==
  LET block == GetBlock(st.bs, id)
      gapped == IF gapSize = NoGap THEN st.currentStart
                ELSE JsMod(st.currentStart + gapSize, DAY)
      originalStart == IF ~wrap /\ gapped + block.duration > DAY /\ ~overlap THEN 0 ELSE gapped
      free == {k \in 0..(RandomMaxAttempts - 1) :
                 ~RandomHasConflict(st.placedBlocks, id, JsMod(originalStart + k * Q, DAY),
                                    block.duration, overlap, wrap)}
      currentStart == JsMod(originalStart + Least(free) * Q, DAY)
      assigned == SetBlock(st.bs, id, [block EXCEPT !.start = currentStart])
      r == IF free # {} THEN UpdateBlockCore(assigned, id, StartOnly(currentStart), overlap, wrap)
           ELSE UpdateBlockCore(st.bs, id, StartOnly(originalStart), overlap, wrap)
      placedStart == IF free # {} THEN currentStart ELSE originalStart
      after == GetBlock(r.bs, id)
  IN IF r.result = "throws" THEN [st EXCEPT !.bs = r.bs, !.thrown = TRUE]
     ELSE [st EXCEPT
             !.bs = r.bs,
             !.emitted = @ \/ r.result = "true",
             !.savedBlocks = IF r.result = "true" THEN r.bs ELSE @,
             !.placedBlocks = IF block.isLocked THEN @
                              ELSE Append(@, Placed(id, placedStart, block.duration)),
             !.currentStart = NextRunningStart(after.start, after.duration, overlap, wrap),
             !.warned = @ \/ free = {}]

\* The end of a block's turn in every strategy but the random one: the start
\* goes to updateBlock, the block joins the placed blocks at that start whether
\* or not updateBlock took it, and the running start moves on.  The toast, when
\* the strategy shows it, comes before the update.
StrategyWrite(st, id, start, next, warnedNow, overlap, wrap) ==
  LET block == GetBlock(st.bs, id)
      r == UpdateBlockCore(st.bs, id, StartOnly(start), overlap, wrap)
  IN IF r.result = "throws" THEN [st EXCEPT !.thrown = TRUE, !.warned = @ \/ warnedNow]
     ELSE [st EXCEPT
             !.bs = r.bs,
             !.emitted = @ \/ r.result = "true",
             !.savedBlocks = IF r.result = "true" THEN r.bs ELSE @,
             !.placedBlocks = IF block.isLocked THEN @
                              ELSE Append(@, Placed(id, start, block.duration)),
             !.currentStart = next,
             !.warned = @ \/ warnedNow]

\* The start applyCompactStrategy tries for a block: the running start, or the
\* best gap when the block would cross the end of the day.
CompactFit(st, duration, overlap, wrap) ==
  IF ~wrap /\ st.currentStart + duration > DAY /\ ~overlap
  THEN FindBestGap(st.placedBlocks, duration, wrap)
  ELSE st.currentStart

\* The start a strategy settles on, with whether it shows the toast: the start
\* it tried when it is free (or overlap is allowed), else the first of the
\* starts its search found free, else the fallback and the toast.
Settle(placedBlocks, duration, tried, found, fallback, overlap, wrap) ==
  IF overlap \/ ~CheckForTimeConflicts(placedBlocks, tried, duration, wrap)
  THEN [start |-> tried, warned |-> FALSE]
  ELSE [start |-> FirstOr(found, fallback), warned |-> found = {}]

\* The end of a block's turn in the compact and clustered strategies.
WriteRunning(st, id, duration, settled, overlap, wrap) ==
  StrategyWrite(st, id, settled.start, NextRunningStart(settled.start, duration, overlap, wrap),
                settled.warned, overlap, wrap)

\* One block of applyCompactStrategy, of the duration given.
CompactPlace(st, id, duration, overlap, wrap) ==
  WriteRunning(st, id, duration,
               Settle(st.placedBlocks, duration, CompactFit(st, duration, overlap, wrap),
                      FreeQuarters(st.placedBlocks, duration, wrap), 0, overlap, wrap),
               overlap, wrap)

CompactPlaceBlock(st, id, overlap, wrap) ==
  CompactPlace(st, id, GetBlock(st.bs, id).duration, overlap, wrap)

\* The gap applySpreadStrategy leaves after each block: the free time shared
\* out between the blocks, two hours at most.
IdealGapSize(bs, ids, wrap) ==
  LET durations == [k \in 1..Len(ids) |-> GetBlock(bs, ids[k]).duration]
      sum[k \in 0..Len(ids)] == IF k = 0 THEN 0 ELSE sum[k - 1] + durations[k]
      totalDuration == sum[Len(ids)]
      availableTime == IF wrap THEN DAY ELSE Min(DAY, totalDuration)
      numberOfGaps == IF Len(ids) > 1 THEN Len(ids) ELSE 1
  IN IF totalDuration < availableTime
     THEN Min(Max(0, (availableTime - totalDuration) \div numberOfGaps), 2 * HOUR)
     ELSE 0

\* One block of applySpreadStrategy.
SpreadPlaceBlock(st, id, idealGapSize, overlap, wrap) ==
  LET block == GetBlock(st.bs, id)
      hasConflict == ~overlap /\ CheckForTimeConflicts(st.placedBlocks, st.currentStart,
                                                       block.duration, wrap)
      free == FreeQuarters(st.placedBlocks, block.duration, wrap)
      found == IF hasConflict /\ free # {} THEN Least(free) ELSE st.currentStart
      attemptedStart == IF ~wrap /\ found + block.duration > DAY /\ ~overlap THEN 0 ELSE found
      next == JsMod(attemptedStart + block.duration + idealGapSize, DAY)
  IN StrategyWrite(st, id, attemptedStart, IF ~wrap THEN Min(DAY, next) ELSE next,
                   hasConflict /\ free = {}, overlap, wrap)

\* The duration category of applyClusteredStrategy.
BlockCategory(duration) ==
  IF duration <= 2 * Q THEN "short" ELSE IF duration <= 6 * Q THEN "medium" ELSE "long"

\* The clustered strategy gives up on a block after this many quarter hours.
ClusteredMaxAttempts == 96

\* One block of applyClusteredStrategy.
ClusteredPlaceBlock(st, id, overlap, wrap) ==
  LET block == GetBlock(st.bs, id)
      blockCategory == BlockCategory(block.duration)
      gapped == IF st.category # "none" /\ st.category # blockCategory
                THEN JsMod(st.currentStart + 2 * Q, DAY) ELSE st.currentStart
      fitted == IF ~wrap /\ gapped + block.duration > DAY /\ ~overlap THEN 0 ELSE gapped
      hasConflict == ~overlap /\ CheckForTimeConflicts(st.placedBlocks, fitted, block.duration, wrap)
      spots == {k \in 1..ClusteredMaxAttempts :
                  LET tryStart == JsMod(fitted + k * Q, DAY)
                  IN /\ ~CheckForTimeConflicts(st.placedBlocks, tryStart, block.duration, wrap)
                     /\ (~wrap \/ tryStart + block.duration <= DAY \/ overlap)}
      currentStart == IF ~hasConflict THEN fitted
                      ELSE IF spots # {} THEN JsMod(fitted + Least(spots) * Q, DAY) ELSE 0
  IN [StrategyWrite(st, id, currentStart,
                    NextRunningStart(currentStart, block.duration, overlap, wrap),
                    hasConflict /\ spots = {}, overlap, wrap)
        EXCEPT !.category = blockCategory]

\* One block of layoutBlocksSequentially, which the priority, balanced and theme
\* strategies share: findValidPosition from the running start, whatever the
\* overlap setting, and no toast.
SequentialPlaceBlock(st, id, gapSize, overlap, wrap) ==
  LET block == GetBlock(st.bs, id)
      validPosition == FindValidPosition(st.placedBlocks, st.currentStart, block.duration, wrap)
      next == JsMod(validPosition + block.duration + gapSize, DAY)
  IN StrategyWrite(st, id, validPosition, IF ~wrap THEN Min(DAY, next) ELSE next,
                   FALSE, overlap, wrap)

\* The forEach of a strategy over its blocks, which an exception ends.
RECURSIVE WalkBlocks(_, _, _, _, _, _, _)
WalkBlocks(kind, st, order, index, gapSize, overlap, wrap) ==
  IF index > Len(order) \/ st.thrown THEN st
  ELSE WalkBlocks(kind,
                  CASE kind = "compact" -> CompactPlaceBlock(st, order[index], overlap, wrap)
                    [] kind = "spread" ->
                         SpreadPlaceBlock(st, order[index], gapSize, overlap, wrap)
                    [] kind = "clustered" -> ClusteredPlaceBlock(st, order[index], overlap, wrap)
                    [] OTHER -> SequentialPlaceBlock(st, order[index], gapSize, overlap, wrap),
                  order, index + 1, gapSize, overlap, wrap)

\* Array.prototype.sort((a, b) => b.duration - a.duration): longest first,
\* blocks of one duration in the order they had.
SortByDuration(bs, ids) ==
  LET d(i) == GetBlock(bs, ids[i]).duration
      before(i, j) == d(i) > d(j) \/ (d(i) = d(j) /\ i < j)
      rank(i) == 1 + Cardinality({j \in 1..Len(ids) : before(j, i)})
  IN [r \in 1..Len(ids) |-> ids[CHOOSE i \in 1..Len(ids) : rank(i) = r]]

\* The ids of a list of blocks, in its order.
IdsOf(bs) == [k \in 1..Len(bs) |-> bs[k].id]

\* The members of a list that a test keeps, in the order of another list.
InOrderOf(order, keep) == SelectSeq(order, LAMBDA id : id \in keep)

ApplyCompactStrategy(bs, overlap, wrap) ==
  WalkBlocks("compact", StrategyStart(bs), SortByDuration(bs, IdsOf(ShuffleCandidates(bs))), 1, 0,
             overlap, wrap)

\* applySpreadStrategy for one order of its Fisher-Yates shuffle.
ApplySpreadStrategy(bs, order, overlap, wrap) ==
  WalkBlocks("spread", StrategyStart(bs), order, 1, IdealGapSize(bs, order, wrap), overlap, wrap)

\* applyClusteredStrategy for one order of its shuffles and one draw of the
\* order of the groups: medium, short, long when mediumFirst, else long,
\* medium, short.
ClusteredOrder(bs, order, mediumFirst) ==
  LET group(c) == SelectSeq(order, LAMBDA id : BlockCategory(GetBlock(bs, id).duration) = c)
  IN IF mediumFirst THEN group("medium") \o group("short") \o group("long")
     ELSE group("long") \o group("medium") \o group("short")

ApplyClusteredStrategy(bs, order, mediumFirst, overlap, wrap) ==
  WalkBlocks("clustered", StrategyStart(bs), ClusteredOrder(bs, order, mediumFirst), 1, 0,
             overlap, wrap)

(***************************************************************************)
(* ShuffleManager.applyTimeOfDayStrategy                                   *)
(***************************************************************************)
\* Morning 5-12, afternoon 12-17, evening 17-22, night 22-5.
Periods ==
  << [start |-> 5 * HOUR, duration |-> 7 * HOUR, crossesMidnight |-> FALSE],
     [start |-> 12 * HOUR, duration |-> 5 * HOUR, crossesMidnight |-> FALSE],
     [start |-> 17 * HOUR, duration |-> 5 * HOUR, crossesMidnight |-> FALSE],
     [start |-> 22 * HOUR, duration |-> (DAY - 22 * HOUR) + 5 * HOUR, crossesMidnight |-> TRUE] >>

\* The period the first pass gives a block of this duration, with this much
\* time remaining in each period.
PeriodFor(duration, remaining) ==
  LET longest == Max(Max(Periods[1].duration, Periods[2].duration),
                     Max(Periods[3].duration, Periods[4].duration))
      fitsNowhere == \A p \in 1..4 : duration > remaining[p]
      most == Least({p \in 1..4 : \A q \in 1..4 : remaining[p] >= remaining[q]})
  IN IF duration > longest \/ fitsNowhere THEN most
     ELSE IF duration <= remaining[1] THEN 1
     ELSE IF duration <= remaining[2] THEN 2
     ELSE IF duration <= remaining[3] THEN 3
     ELSE 4

\* The first pass over the blocks, longest first: the period of each.
RECURSIVE DistributeToPeriods(_, _, _, _, _)
DistributeToPeriods(bs, sorted, index, remaining, periodOf) ==
  IF index > Len(sorted) THEN periodOf
  ELSE LET duration == GetBlock(bs, sorted[index]).duration
           p == PeriodFor(duration, remaining)
       IN DistributeToPeriods(bs, sorted, index + 1, [remaining EXCEPT ![p] = @ - duration],
                              Append(periodOf, p))

\* The gap positionBlocksInPeriod leaves before and after each block.
PeriodGapSize(bs, ids, periodDuration) ==
  LET sum[k \in 0..Len(ids)] == IF k = 0 THEN 0 ELSE sum[k - 1] + GetBlock(bs, ids[k]).duration
  IN IF sum[Len(ids)] < periodDuration
     THEN Min((periodDuration - sum[Len(ids)]) \div (Len(ids) + 1), HOUR)
     ELSE 0

\* The starts positionBlocksInPeriod finds free for a block whose running
\* start conflicts, the first of which it takes: those in the period, else
\* those anywhere in the day.
PeriodSearch(placedBlocks, duration, period, wrap) ==
  LET free(h) == ~CheckForTimeConflicts(placedBlocks, h, duration, wrap)
      searchEnd == period.start + period.duration
      steps == {period.start + k * Q : k \in 0..(DAY \div Q)}
      untilMidnight == {h \in steps : h < DAY /\ free(h) /\ (wrap \/ h + duration <= DAY)}
      afterMidnight == {h \in Quarters : h < JsMod(searchEnd, DAY) /\ free(h)}
      within == {h \in steps : h < searchEnd - duration /\ free(h)}
      inPeriod == IF period.crossesMidnight
                  THEN IF searchEnd <= DAY THEN {}
                       ELSE IF untilMidnight # {} THEN untilMidnight ELSE afterMidnight
                  ELSE within
  IN IF inPeriod # {} THEN inPeriod
     ELSE {h \in Quarters : free(h) /\ (wrap \/ h + duration <= DAY)}

\* The running start of positionBlocksInPeriod, brought back into the day.
PeriodWrapped(start, period) ==
  IF period.crossesMidnight /\ start >= DAY THEN JsMod(start, DAY) ELSE start

\* The start positionBlocksInPeriod tries for a block.
PeriodFit(wrapped, duration, wrap) ==
  IF ~wrap /\ wrapped + duration > DAY THEN 0 ELSE wrapped

\* The end of a block's turn in positionBlocksInPeriod.
PeriodWrite(st, id, duration, period, gapSize, settled, overlap, wrap) ==
  StrategyWrite(st, id, settled.start,
                PeriodWrapped(settled.start + duration + gapSize, period),
                settled.warned, overlap, wrap)

\* One block of positionBlocksInPeriod, of the duration given.
PeriodPlace(st, id, duration, period, gapSize, overlap, wrap) ==
  PeriodWrite(st, id, duration, period, gapSize,
              Settle(st.placedBlocks, duration,
                     PeriodFit(PeriodWrapped(st.currentStart, period), duration, wrap),
                     PeriodSearch(st.placedBlocks, duration, period, wrap),
                     period.start, overlap, wrap),
              overlap, wrap)

PeriodPlaceBlock(st, id, period, gapSize, overlap, wrap) ==
  PeriodPlace(st, id, GetBlock(st.bs, id).duration, period, gapSize, overlap, wrap)

RECURSIVE PeriodWalk(_, _, _, _, _, _, _)
PeriodWalk(st, ids, index, period, gapSize, overlap, wrap) ==
  IF index > Len(ids) \/ st.thrown THEN st
  ELSE PeriodWalk(PeriodPlaceBlock(st, ids[index], period, gapSize, overlap, wrap), ids,
                  index + 1, period, gapSize, overlap, wrap)

\* positionBlocksInPeriod, for the order its shuffle left the blocks in.
PositionBlocksInPeriod(st, ids, period, overlap, wrap) ==
  IF Len(ids) = 0 \/ st.thrown THEN st
  ELSE PeriodWalk([st EXCEPT !.currentStart =
                               period.start + PeriodGapSize(st.bs, ids, period.duration)],
                  ids, 1, period, PeriodGapSize(st.bs, ids, period.duration), overlap, wrap)

\* The blocks the first pass gave a period, in the order its shuffle left them
\* in.
BlocksOfPeriod(sorted, periodOf, order, p) ==
  InOrderOf(order, {sorted[k] : k \in {j \in 1..Len(sorted) : periodOf[j] = p}})

\* The four calls of positionBlocksInPeriod, from period p on.
RECURSIVE PositionPeriods(_, _, _, _, _, _, _)
PositionPeriods(st, sorted, periodOf, order, p, overlap, wrap) ==
  IF p > Len(Periods) THEN st
  ELSE PositionPeriods(PositionBlocksInPeriod(st, BlocksOfPeriod(sorted, periodOf, order, p),
                                              Periods[p], overlap, wrap),
                       sorted, periodOf, order, p + 1, overlap, wrap)

\* The second pass of applyTimeOfDayStrategy over the sorted blocks.
TimeOfDayLayout(bs, sorted, order, overlap, wrap) ==
  PositionPeriods(StrategyStart(bs), sorted,
                  DistributeToPeriods(bs, sorted, 1, [p \in 1..4 |-> Periods[p].duration], <<>>),
                  order, 1, overlap, wrap)

\* applyTimeOfDayStrategy; the blocks of each period are taken in the order
\* they have in `order`, one outcome of the shuffles of the periods.
ApplyTimeOfDayStrategy(bs, order, overlap, wrap) ==
  TimeOfDayLayout(bs, SortByDuration(bs, IdsOf(ShuffleCandidates(bs))), order, overlap, wrap)

(***************************************************************************)
(* ShuffleManager: the priority, energy, balanced and theme strategies.    *)
(* Each tags the blocks at random where they carry no tag yet.  The tags    *)
(* are drawn afresh at every run here, which allows every outcome of a run  *)
(* that finds tags of an earlier run (the code keeps them on the block)     *)
(* and more.                                                               *)
(***************************************************************************)
PriorityOrder == [high |-> 3, medium |-> 2, low |-> 1]
Priorities == {"high", "medium", "low"}

\* The orders the priority sort can leave: high before medium before low,
\* blocks of one priority in any order (its comparator is random on ties).
PriorityOrders(ids) ==
  {o \in Orders(ids) :
     \E priority \in [ids -> Priorities] :
       \A i, j \in 1..Len(o) :
         i < j => PriorityOrder[priority[o[i]]] >= PriorityOrder[priority[o[j]]]}

Categories == <<"work", "personal", "health", "learning", "social">>

\* The interleaving of applyBalancedStrategy: round after round, one block of
\* each category in the order of the categories; `shuffled` gives the order
\* inside each category.
Interleave(shuffled, category) ==
  LET round(i) == Cardinality({j \in 1..(i - 1) : category[shuffled[j]] = category[shuffled[i]]})
      before(i, j) == round(i) < round(j)
                      \/ (round(i) = round(j) /\ category[shuffled[i]] < category[shuffled[j]])
      rank(i) == 1 + Cardinality({j \in 1..Len(shuffled) : before(j, i)})
  IN [r \in 1..Len(shuffled) |-> shuffled[CHOOSE i \in 1..Len(shuffled) : rank(i) = r]]

BalancedOrders(ids) ==
  {Interleave(shuffled, category) :
     shuffled \in Orders(ids), category \in [ids -> 1..Len(Categories)]}

\* The titles of the model that hold a work keyword ("work", "call"); its other
\* titles hold no keyword of any theme.
WorkTitles == {"Work call"}

\* The themes a title allows: "work" for a title holding one of the work
\* keywords, any theme for a title holding no keyword.
ThemeOrder == <<"work", "learning", "health", "personal">>
ThemesOfTitle(title) == IF title \in WorkTitles THEN {1} ELSE 1..Len(ThemeOrder)

\* The orders applyThemeStrategy can lay the blocks out in: theme after theme,
\* each theme shuffled.
ThemeOrders(bs, ids) ==
  {o \in Orders(ids) :
     \E theme \in [ids -> 1..Len(ThemeOrder)] :
       /\ \A id \in ids : theme[id] \in ThemesOfTitle(GetBlock(bs, id).title)
       /\ \A i, j \in 1..Len(o) : i < j => theme[o[i]] <= theme[o[j]]}

\* The gaps layoutBlocksSequentially is called with.
SequentialGap == [priority |-> Q, balanced |-> 2 * Q, theme |-> 3 * Q]

\* applyPriorityStrategy, applyBalancedStrategy and applyThemeStrategy once the
\* order of the blocks is drawn.
ApplySequentialStrategy(bs, strategy, order, overlap, wrap) ==
  WalkBlocks(strategy, StrategyStart(bs), order, 1, SequentialGap[strategy], overlap, wrap)

\* The energy slots: morning 6-10, mid-morning 10-14, afternoon 14-18,
\* evening 18-22.
EnergySlots ==
  << [start |-> 6 * HOUR, end |-> 10 * HOUR], [start |-> 10 * HOUR, end |-> 14 * HOUR],
     [start |-> 14 * HOUR, end |-> 18 * HOUR], [start |-> 18 * HOUR, end |-> 22 * HOUR] >>

\* The slots each energy level prefers, in the order they are tried.
PreferredSlots == [high |-> <<1, 2>>, medium |-> <<2, 3, 4>>, low |-> <<3, 4>>]
Energies == {"high", "medium", "low"}

\* The free starts of a block in a slot.
SlotStarts(placedBlocks, duration, slot, wrap) ==
  IF duration > slot.end - slot.start THEN {}
  ELSE {t \in {slot.start + k * Q : k \in 0..((slot.end - slot.start) \div Q)} :
          t <= slot.end - duration /\ ~CheckForTimeConflicts(placedBlocks, t, duration, wrap)}

\* One block of placeBlocksInSlots: the first free start of the first preferred
\* slot that has one, else findValidPosition from 0.
SlotPlaceBlock(st, id, preferredSlots, overlap, wrap) ==
  LET block == GetBlock(st.bs, id)
      starts(k) == SlotStarts(st.placedBlocks, block.duration, EnergySlots[preferredSlots[k]], wrap)
      open == {k \in 1..Len(preferredSlots) : starts(k) # {}}
      time == IF open # {} THEN Least(starts(Least(open)))
              ELSE FindValidPosition(st.placedBlocks, 0, block.duration, wrap)
  IN StrategyWrite(st, id, time, st.currentStart, FALSE, overlap, wrap)

RECURSIVE PlaceBlocksInSlots(_, _, _, _, _, _)
PlaceBlocksInSlots(st, ids, index, preferredSlots, overlap, wrap) ==
  IF index > Len(ids) \/ st.thrown THEN st
  ELSE PlaceBlocksInSlots(SlotPlaceBlock(st, ids[index], preferredSlots, overlap, wrap), ids,
                          index + 1, preferredSlots, overlap, wrap)

\* applyEnergyStrategy for one draw of the energy levels.
ApplyEnergyStrategy(bs, energy, overlap, wrap) ==
  LET ids == IdsOf(ShuffleCandidates(bs))
      level(e) == SelectSeq(ids, LAMBDA id : energy[id] = e)
      high == PlaceBlocksInSlots(StrategyStart(bs), level("high"), 1, PreferredSlots.high,
                                 overlap, wrap)
      medium == PlaceBlocksInSlots(high, level("medium"), 1, PreferredSlots.medium, overlap, wrap)
  IN PlaceBlocksInSlots(medium, level("low"), 1, PreferredSlots.low, overlap, wrap)

RECURSIVE RandomLayout(_, _, _, _, _, _)
RandomLayout(st, order, gaps, index, overlap, wrap) ==
  IF index > Len(order) \/ st.thrown THEN st
  ELSE RandomLayout(RandomPlaceBlock(st, order[index],
                                     IF index > 1 THEN gaps[index] ELSE NoGap, overlap, wrap),
                    order, gaps, index + 1, overlap, wrap)

\* applyRandomStrategy, for one outcome of its random draws: the order of the
\* blocks and the gap before each.
ApplyRandomStrategy(bs, order, gaps, overlap, wrap) ==
  RandomLayout(StrategyStart(bs), order, gaps, 1, overlap, wrap)

\* The request of an addBlock call, as the record of the call keeps it.
AsData(blockData) ==
  [has |-> {"title", "start", "duration", "color"}, title |-> blockData.title,
   start |-> blockData.start, duration |-> blockData.duration, color |-> blockData.color]

\* No gesture is under way: the flags isDragging, isResizing and isResizingLeft
\* of every block are false, the Timeline's isResizeInProgress is false and no
\* grace-period timer is pending.  startBefore and durationBefore keep what
\* the block of the gesture had when the gesture began.
NoGesture ==
  [kind |-> "none", id |-> TempId, originalStart |-> 0, originalDuration |-> 0,
   isResizeInProgress |-> FALSE, timer |-> FALSE, startBefore |-> 0, durationBefore |-> 0,
   events |-> 0]

NoCall ==
  [op |-> "none", id |-> TempId, data |-> NoData, result |-> "none", reason |-> "",
   newId |-> TempId, steps |-> 0, overflow |-> FALSE, strategy |-> "", warned |-> FALSE,
   source |-> "", placedBlocks |-> <<>>]

\* No search loop is under way.
NoSearch ==
  [loop |-> "none", pc |-> "idle", id |-> TempId, placedBlocks |-> <<>>, currentStart |-> 0,
   tryStart |-> 0, attempts |-> 0, warned |-> FALSE,
   points |-> <<>>, sweep |-> [gaps |-> <<>>, openBlocks |-> 0, lastTime |-> 0]]

(***************************************************************************)
(* Timeline.simpleShuffle and Timeline.placeBlocksSequentially             *)
(***************************************************************************)
\* Timeline.timeRangesOverlap, the test of the simple shuffle.
TimelineTimeRangesOverlap(start1, end1, start2, end2, wrap) ==
  LET e1 == IF wrap /\ end1 > DAY THEN JsMod(end1, DAY) ELSE end1
      e2 == IF wrap /\ end2 > DAY THEN JsMod(end2, DAY) ELSE end2
  IN IF wrap /\ ~(start1 < e1 /\ start2 < e2) THEN TRUE
     ELSE start1 < e2 /\ start2 < e1

\* The conflict test of placeBlocksSequentially at a start.
SequentialHasConflict(placedBlocks, id, searchStart, duration, overlap, wrap) ==
  /\ ~overlap
  /\ \/ \E i \in 1..Len(placedBlocks) :
          /\ placedBlocks[i].id # id
          /\ TimelineTimeRangesOverlap(searchStart, searchStart + duration, placedBlocks[i].start,
                                       placedBlocks[i].start + placedBlocks[i].duration, wrap)
     \/ ~wrap /\ searchStart + duration > DAY

\* placeBlocksSequentially gives up on a block after this many quarter hours.
SequentialMaxAttempts(wrap) == IF wrap THEN 96 ELSE 48

\* The next start the search of placeBlocksSequentially tries: a quarter of
\* an hour on, around the day with wrapping, back to 0 from the end without.
SequentialNextStart(searchStart, wrap) ==
  IF wrap THEN JsMod(searchStart + Q, DAY)
  ELSE IF searchStart + Q >= DAY THEN 0 ELSE searchStart + Q

\* The start the search tries after so many conflicts, from a running start
\* between 0 and 24: SequentialNextStart applied that many times.  Without
\* wrapping the starts run up to the end of the day and then on from 0, and the
\* 48 attempts do not reach the end of the day a second time.
SequentialTry(attempts, currentStart, wrap) ==
  IF attempts = 0 THEN currentStart
  ELSE IF wrap THEN JsMod(currentStart + attempts * Q, DAY)
  ELSE IF currentStart + attempts * Q < DAY THEN currentStart + attempts * Q
  ELSE (attempts - Max(1, (DAY - currentStart + Q - 1) \div Q)) * Q

\* The running start after a block of placeBlocksSequentially.
SequentialRunningStart(start, duration, wrap) ==
  IF wrap THEN JsMod(start + duration, DAY) ELSE Min(DAY, start + duration)

\* One block of placeBlocksSequentially: the first start without a conflict
\* goes to updateBlock and the block joins the placed blocks; after the last
\* attempt updateBlock gets the running start and the block joins nothing.
SimplePlaceBlock(st, id, free, overlap, wrap) ==
  LET block == GetBlock(st.bs, id)
      searchStart == IF free # {} THEN SequentialTry(Least(free), st.currentStart, wrap)
                     ELSE st.currentStart
      r == UpdateBlockCore(st.bs, id, StartOnly(searchStart), overlap, wrap)
  IN IF r.result = "throws" THEN [st EXCEPT !.thrown = TRUE]
     ELSE [st EXCEPT
             !.bs = r.bs,
             !.emitted = @ \/ r.result = "true",
             !.savedBlocks = IF r.result = "true" THEN r.bs ELSE @,
             !.placedBlocks = IF free # {}
                              THEN Append(@, Placed(id, searchStart, block.duration))
                              ELSE @,
             !.currentStart = SequentialRunningStart(searchStart, block.duration, wrap)]

\* The attempts of the search that meet no conflict.
SimpleFree(st, id, overlap, wrap) ==
  {k \in 0..(SequentialMaxAttempts(wrap) - 1) :
     ~SequentialHasConflict(st.placedBlocks, id, SequentialTry(k, st.currentStart, wrap),
                            GetBlock(st.bs, id).duration, overlap, wrap)}

\* The for loop of placeBlocksSequentially over the shuffled blocks.
RECURSIVE SimpleWalk(_, _, _, _, _)
SimpleWalk(st, order, index, overlap, wrap) ==
  IF index > Len(order) \/ st.thrown THEN st
  ELSE SimpleWalk(SimplePlaceBlock(st, order[index],
                                   SimpleFree(st, order[index], overlap, wrap), overlap, wrap),
                  order, index + 1, overlap, wrap)

\* simpleShuffle once the Fisher-Yates order of the unlocked blocks is drawn.
ApplySimpleShuffle(bs, order, overlap, wrap) ==
  SimpleWalk(StrategyStart(bs), order, 1, overlap, wrap)

(***************************************************************************)
(* Timeline.serialize and Timeline.saveCurrentState                        *)
(***************************************************************************)
\* Block.serialize: the six fields of a block.
BlockSerialize(b) ==
  [id |-> b.id, title |-> b.title, start |-> b.start, duration |-> b.duration,
   color |-> b.color, isLocked |-> b.isLocked]

\* Timeline.serialize: the blocks in the order of the Map, and the three settings.
Serialize(bs, wrap, overlap, format) ==
  [blocks |-> [k \in 1..Len(bs) |-> BlockSerialize(bs[k])],
   isWrappingEnabled |-> wrap, allowOverlap |-> overlap, use24HourFormat |-> format]

\* No 'timeline:save-current' event has been dispatched yet.
NoSnapshot == [emitted |-> FALSE, detail |-> Serialize(<<>>, FALSE, FALSE, TRUE)]

\* The event saveCurrentState dispatches: its detail is serialize().
Emitted(detail) == [emitted |-> TRUE, detail |-> detail]

\* Timeline.saveCurrentState at the end of a call, on the state the call leaves.
SaveCurrentState ==
  saved' = Emitted(Serialize(blocks', isWrappingEnabled', allowOverlap', use24HourFormat'))

\* A call that returns or throws before it reaches saveCurrentState leaves the
\* last event as it was.
SaveIf(reached) == IF reached THEN SaveCurrentState ELSE UNCHANGED saved

Init ==
  /\ blocks = <<>>
  /\ isWrappingEnabled = FALSE
  /\ allowOverlap = FALSE
  /\ last = NoCall
  /\ calls = 0
  /\ search = NoSearch
  /\ use24HourFormat = TRUE
  /\ saved = NoSnapshot
  /\ gesture = NoGesture

\* Every call counts against the calls a behaviour makes.
Tick == calls < MaxCalls /\ calls' = calls + 1 /\ UNCHANGED <<search, use24HourFormat, gesture>>

(***************************************************************************)
(* The calls.                                                              *)
(***************************************************************************)
AddBlock(blockData) ==
  /\ Tick
  /\ Len(blocks) < MaxBlocks
  /\ LET r == AddBlockCore(blocks, blockData, allowOverlap, isWrappingEnabled)
     IN /\ blocks' = r.bs
        /\ last' = [NoCall EXCEPT !.op = "addBlock", !.data = AsData(blockData),
                                  !.result = r.result, !.newId = r.newId]
  /\ UNCHANGED <<isWrappingEnabled, allowOverlap>>
  /\ SaveIf(last'.result = "id")

\* Timeline.handleGridClick: the hour of the click, rounded to the quarter hour
\* and held between 0 and 24, is the start the dialog asks addBlock for.
GridClickStart(clickHour) == Max(0, Min(DAY, QuarterRound(clickHour)))

GridClickCreate(clickHour, t) ==
  /\ Tick
  /\ ~gesture.isResizeInProgress
  /\ Len(blocks) < MaxBlocks
  /\ LET blockData == [title |-> t.title, color |-> t.color, duration |-> t.duration,
                       start |-> GridClickStart(clickHour)]
         r == AddBlockCore(blocks, blockData, allowOverlap, isWrappingEnabled)
     IN /\ blocks' = r.bs
        /\ last' = [NoCall EXCEPT !.op = "gridClick", !.data = AsData(blockData),
                                  !.result = r.result, !.newId = r.newId]
  /\ UNCHANGED <<isWrappingEnabled, allowOverlap>>
  /\ SaveIf(last'.result = "id")

\* The record of the call keeps whether the call before it was the same call.
UpdateBlock(id, data) ==
  /\ Tick
  /\ LET r == UpdateBlockCore(blocks, id, data, allowOverlap, isWrappingEnabled)
     IN /\ blocks' = r.bs
        /\ last' = [NoCall EXCEPT !.op = "updateBlock", !.id = id, !.data = data,
                                  !.result = r.result, !.reason = r.reason,
                                  !.source = IF /\ last.op = "updateBlock" /\ last.id = id
                                                /\ last.data = data
                                             THEN "repeated" ELSE ""]
  /\ UNCHANGED <<isWrappingEnabled, allowOverlap>>
  /\ SaveIf(last'.result = "true")

\* The record of the call keeps whether the block it named was locked.
RemoveBlock(id) ==
  /\ Tick
  /\ LET r == RemoveBlockCore(blocks, id)
     IN /\ blocks' = r.bs
        /\ last' = [NoCall EXCEPT !.op = "removeBlock", !.id = id, !.result = r.result,
                                  !.reason = IF HasBlock(blocks, id) /\ GetBlock(blocks, id).isLocked
                                             THEN "locked" ELSE ""]
  /\ UNCHANGED <<isWrappingEnabled, allowOverlap>>
  /\ SaveIf(last'.result = "true")

DuplicateBlock(id) ==
  /\ Tick
  /\ HasBlock(blocks, id) => Len(blocks) < MaxBlocks
  /\ LET r == DuplicateBlockCore(blocks, id, allowOverlap, isWrappingEnabled)
     IN /\ blocks' = r.bs
        /\ last' = [NoCall EXCEPT !.op = "duplicateBlock", !.id = id, !.result = r.result,
                                  !.newId = r.newId, !.steps = r.steps,
                                  !.overflow = r.overflow]
  /\ UNCHANGED <<isWrappingEnabled, allowOverlap>>
  /\ SaveIf(last'.result = "id")

\* Block.toggleLock, from the context menu: the call of saveCurrentState in it
\* is commented out, and toggleBlockLock makes none.
ToggleLock(id) ==
  /\ Tick
  /\ HasBlock(blocks, id)
  /\ blocks' = SetBlock(blocks, id, [GetBlock(blocks, id) EXCEPT !.isLocked = ~@])
  /\ last' = [NoCall EXCEPT !.op = "toggleLock", !.id = id]
  /\ UNCHANGED <<isWrappingEnabled, allowOverlap>>
  /\ UNCHANGED saved

\* A toggle that cuts the blocks at the end of the day when wrapping goes off.
SetWrappingEnabledCutting(isEnabled) ==
  /\ Tick
  /\ isWrappingEnabled' = isEnabled
  /\ blocks' = [k \in 1..Len(blocks) |->
                  IF ~isEnabled /\ blocks[k].start < DAY
                                /\ blocks[k].start + blocks[k].duration > DAY
                  THEN [blocks[k] EXCEPT !.duration = DAY - blocks[k].start]
                  ELSE blocks[k]]
  /\ last' = [NoCall EXCEPT !.op = "setWrappingEnabled"]
  /\ UNCHANGED allowOverlap
  /\ SaveCurrentState

SetWrappingEnabled(isEnabled) ==
  /\ Tick
  /\ isWrappingEnabled' = isEnabled
  /\ last' = [NoCall EXCEPT !.op = "setWrappingEnabled"]
  /\ UNCHANGED <<blocks, allowOverlap>>
  /\ SaveCurrentState

SetOverlapAllowed(isAllowed) ==
  /\ Tick
  /\ allowOverlap' = isAllowed
  /\ last' = [NoCall EXCEPT !.op = "setOverlapAllowed"]
  /\ UNCHANGED <<blocks, isWrappingEnabled>>
  /\ SaveCurrentState

\* What executeStrategy leaves behind once the strategy has run.
ShuffleOutcome(strategy, st) ==
  [NoCall EXCEPT !.op = "shuffle", !.strategy = strategy, !.warned = st.warned,
                 !.result = IF st.thrown THEN "throws" ELSE "done",
                 !.placedBlocks = st.placedBlocks]

\* The end of executeStrategy: the blocks as the strategy left them, and
\* saveCurrentState.  A strategy that throws does not reach it: the last event
\* is then the one of the last updateBlock that succeeded, if any.
ShuffleApply(strategy, st) ==
  /\ blocks' = st.bs
  /\ last' = ShuffleOutcome(strategy, st)
  /\ saved' = IF ~st.thrown
              THEN Emitted(Serialize(st.bs, isWrappingEnabled, allowOverlap, use24HourFormat))
              ELSE IF st.emitted
              THEN Emitted(Serialize(st.savedBlocks, isWrappingEnabled, allowOverlap,
                                     use24HourFormat))
              ELSE saved

\* executeStrategy('random').
ShuffleRandom ==
  /\ Tick
  /\ Len(ShuffleCandidates(blocks)) > 0
  /\ \E order \in Orders(BlockIds(ShuffleCandidates(blocks))) :
       \E gaps \in [1..Len(order) -> RandomGaps] :
         ShuffleApply("random",
                      ApplyRandomStrategy(blocks, order, gaps, allowOverlap, isWrappingEnabled))
  /\ UNCHANGED <<isWrappingEnabled, allowOverlap>>

\* executeStrategy('compact').
ShuffleCompact ==
  /\ Tick
  /\ Len(ShuffleCandidates(blocks)) > 0
  /\ ShuffleApply("compact",
                      ApplyCompactStrategy(blocks, allowOverlap, isWrappingEnabled))
  /\ UNCHANGED <<isWrappingEnabled, allowOverlap>>

\* executeStrategy('spread').
ShuffleSpread ==
  /\ Tick
  /\ Len(ShuffleCandidates(blocks)) > 0
  /\ \E order \in Orders(BlockIds(ShuffleCandidates(blocks))) :
       ShuffleApply("spread",
                      ApplySpreadStrategy(blocks, order, allowOverlap, isWrappingEnabled))
  /\ UNCHANGED <<isWrappingEnabled, allowOverlap>>

\* executeStrategy('clustered').
ShuffleClustered ==
  /\ Tick
  /\ Len(ShuffleCandidates(blocks)) > 0
  /\ \E order \in Orders(BlockIds(ShuffleCandidates(blocks))), mediumFirst \in BOOLEAN :
       ShuffleApply("clustered",
                      ApplyClusteredStrategy(blocks, order, mediumFirst, allowOverlap, isWrappingEnabled))
  /\ UNCHANGED <<isWrappingEnabled, allowOverlap>>

\* executeStrategy('timeOfDay').
ShuffleTimeOfDay ==
  /\ Tick
  /\ Len(ShuffleCandidates(blocks)) > 0
  /\ \E order \in Orders(BlockIds(ShuffleCandidates(blocks))) :
       ShuffleApply("timeOfDay",
                      ApplyTimeOfDayStrategy(blocks, order, allowOverlap, isWrappingEnabled))
  /\ UNCHANGED <<isWrappingEnabled, allowOverlap>>

\* executeStrategy('priority'), executeStrategy('balanced') and
\* executeStrategy('theme').
ShuffleSequential(strategy) ==
  /\ Tick
  /\ Len(ShuffleCandidates(blocks)) > 0
  /\ \E order \in CASE strategy = "priority" -> PriorityOrders(BlockIds(ShuffleCandidates(blocks)))
                    [] strategy = "balanced" -> BalancedOrders(BlockIds(ShuffleCandidates(blocks)))
                    [] OTHER -> ThemeOrders(blocks, BlockIds(ShuffleCandidates(blocks))) :
       ShuffleApply(strategy,
                      ApplySequentialStrategy(blocks, strategy, order, allowOverlap, isWrappingEnabled))
  /\ UNCHANGED <<isWrappingEnabled, allowOverlap>>

\* executeStrategy('energy').
ShuffleEnergy ==
  /\ Tick
  /\ Len(ShuffleCandidates(blocks)) > 0
  /\ \E energy \in [BlockIds(ShuffleCandidates(blocks)) -> Energies] :
       ShuffleApply("energy",
                      ApplyEnergyStrategy(blocks, energy, allowOverlap, isWrappingEnabled))
  /\ UNCHANGED <<isWrappingEnabled, allowOverlap>>

\* Timeline.simpleShuffle, the fallback of shuffleBlocks.
SimpleShuffle ==
  /\ Tick
  /\ Len(ShuffleCandidates(blocks)) > 0
  /\ \E order \in Orders(BlockIds(ShuffleCandidates(blocks))) :
       ShuffleApply("simple",
                      ApplySimpleShuffle(blocks, order, allowOverlap, isWrappingEnabled))
  /\ UNCHANGED <<isWrappingEnabled, allowOverlap>>

\* A shuffle that, with no block unlocked, moves the locked ones to 0.
ShuffleLocked(strategy) ==
  /\ Tick
  /\ Len(ShuffleCandidates(blocks)) = 0
  /\ blocks' = [k \in 1..Len(blocks) |-> [blocks[k] EXCEPT !.start = 0]]
  /\ last' = [NoCall EXCEPT !.op = "shuffle", !.strategy = strategy]
  /\ UNCHANGED <<isWrappingEnabled, allowOverlap>>
  /\ SaveCurrentState

\* executeStrategy with every block locked, or none: a toast and nothing else.
\* simpleShuffle returns as early, without the toast.
ShuffleNothing(strategy) ==
  /\ Tick
  /\ Len(ShuffleCandidates(blocks)) = 0
  /\ last' = [NoCall EXCEPT !.op = "shuffle", !.strategy = strategy]
  /\ UNCHANGED <<blocks, isWrappingEnabled, allowOverlap>>
  /\ UNCHANGED saved

Next ==
  \/ \E d \in AddInputs : AddBlock(d)
  \/ \E c \in ClickHours, t \in AddTemplates : GridClickCreate(c, t)
  \/ \E id \in CallIds, d \in UpdateInputs : UpdateBlock(id, d)
  \/ \E id \in CallIds : RemoveBlock(id)
  \/ \E id \in CallIds : DuplicateBlock(id)
  \/ \E id \in Ids : ToggleLock(id)
  \/ \E b \in BOOLEAN : SetWrappingEnabled(b)
  \/ \E b \in BOOLEAN : SetOverlapAllowed(b)
  \/ ShuffleRandom
  \/ ShuffleCompact
  \/ ShuffleSpread
  \/ ShuffleClustered
  \/ ShuffleTimeOfDay
  \/ ShuffleSequential("priority")
  \/ ShuffleSequential("balanced")
  \/ ShuffleSequential("theme")
  \/ ShuffleEnergy
  \/ SimpleShuffle
  \/ \E s \in Strategies \cup {"simple"} : ShuffleNothing(s)

Spec == Init /\ [][Next]_vars

\* The timeline with overlap disallowed throughout and the wrap setting fixed
\* before the first block: only addBlock, updateBlock and the strategies run.
InitPlain ==
  /\ blocks = <<>>
  /\ isWrappingEnabled \in BOOLEAN
  /\ allowOverlap = FALSE
  /\ last = NoCall
  /\ calls = 0
  /\ search = NoSearch
  /\ use24HourFormat = TRUE
  /\ saved = NoSnapshot
  /\ gesture = NoGesture

NextPlain ==
  \/ \E d \in AddInputs : AddBlock(d)
  \/ \E id \in CallIds, d \in UpdateInputs : UpdateBlock(id, d)
  \/ ShuffleRandom
  \/ ShuffleCompact
  \/ ShuffleSpread
  \/ ShuffleClustered
  \/ ShuffleTimeOfDay
  \/ ShuffleSequential("priority")
  \/ ShuffleSequential("balanced")
  \/ ShuffleSequential("theme")
  \/ ShuffleEnergy
  \/ \E s \in Strategies : ShuffleNothing(s)

SpecPlain == InitPlain /\ [][NextPlain]_vars

(***************************************************************************)
(* Saving and loading: Timeline.deserialize, clearTimeline, setTimeFormat  *)
(* and Block.setLocked                                                     *)
(***************************************************************************)
\* The Block that deserialize constructs from a serialized block: the lock
\* flag is taken from the data.
BlockFromData(blockData) == [NewBlock(blockData) EXCEPT !.isLocked = blockData.isLocked]

\* The serialized blocks that deserialize loads: those before the first one
\* the Block constructor refuses, all of them when it refuses none.
LoadedBlocks(data) ==
  LET refused == {k \in 1..Len(data) : ~BlockDataValid(data[k])}
  IN [k \in 1..(IF refused = {} THEN Len(data) ELSE Least(refused) - 1) |->
        BlockFromData(data[k])]

\* Timeline.deserialize: clearTimeline, which dispatches the save event for
\* the emptied collection under the settings of before; then the settings of
\* the data; then the blocks, up to one whose construction throws.  No save
\* event follows the loading.
DeserializeCore(data, wrap, overlap, format) ==
  [bs |-> LoadedBlocks(data.blocks),
   isWrappingEnabled |-> data.isWrappingEnabled,
   allowOverlap |-> data.allowOverlap,
   use24HourFormat |-> data.use24HourFormat,
   saved |-> Emitted(Serialize(<<>>, wrap, overlap, format)),
   result |-> IF \A k \in 1..Len(data.blocks) : BlockDataValid(data.blocks[k])
              THEN "done" ELSE "throws"]

\* deserialize(data) for the data of serialize() taken just before, or for the
\* detail of the last save event.
Deserialize(source) ==
  /\ calls < MaxCalls
  /\ calls' = calls + 1
  /\ source = "saved" => saved.emitted
  /\ LET r == DeserializeCore(IF source = "saved" THEN saved.detail
                              ELSE Serialize(blocks, isWrappingEnabled, allowOverlap,
                                             use24HourFormat),
                              isWrappingEnabled, allowOverlap, use24HourFormat)
     IN /\ blocks' = r.bs
        /\ isWrappingEnabled' = r.isWrappingEnabled
        /\ allowOverlap' = r.allowOverlap
        /\ use24HourFormat' = r.use24HourFormat
        /\ saved' = r.saved
        /\ last' = [NoCall EXCEPT !.op = "deserialize", !.source = source,
                                  !.result = r.result]
  /\ UNCHANGED <<search, gesture>>

ClearTimeline ==
  /\ Tick
  /\ blocks' = <<>>
  /\ last' = [NoCall EXCEPT !.op = "clearTimeline"]
  /\ UNCHANGED <<isWrappingEnabled, allowOverlap>>
  /\ SaveCurrentState

SetTimeFormat(use24Hour) ==
  /\ calls < MaxCalls
  /\ calls' = calls + 1
  /\ use24HourFormat' = use24Hour
  /\ last' = [NoCall EXCEPT !.op = "setTimeFormat"]
  /\ UNCHANGED <<blocks, isWrappingEnabled, allowOverlap, search, gesture>>
  /\ SaveCurrentState

\* Block.setLocked.
SetLocked(id, locked) ==
  /\ Tick
  /\ HasBlock(blocks, id)
  /\ blocks' = SetBlock(blocks, id, [GetBlock(blocks, id) EXCEPT !.isLocked = locked])
  /\ last' = [NoCall EXCEPT !.op = "setLocked", !.id = id]
  /\ UNCHANGED <<isWrappingEnabled, allowOverlap>>
  /\ SaveCurrentState

NextStore ==
  \/ Next
  \/ \E source \in {"serialize", "saved"} : Deserialize(source)
  \/ ClearTimeline
  \/ \E b \in BOOLEAN : SetTimeFormat(b)
  \/ \E id \in Ids, b \in BOOLEAN : SetLocked(id, b)

\* The timeline with its saving and loading.
SpecStore == Init /\ [][NextStore]_vars

(***************************************************************************)
(* The properties.                                                         *)
(***************************************************************************)
\* Whether some block of the collection conflicts with another, as
\* Timeline.hasConflict judges it with overlap disallowed.
AnyConflict(bs, wrap) ==
  \E i \in 1..Len(bs) : HasConflict(bs, bs[i], NoExclude, FALSE, wrap)

\* C1: with allowOverlap false, from an empty collection, after any sequence
\* of addBlock, updateBlock and strategy calls no two blocks of the collection
\* conflict as Timeline.hasConflict judges, except after a strategy that showed
\* the "may overlap" toast: no call other than such a strategy takes a
\* collection without conflicts to one with a conflict.
C1_NoConflictAfterCalls ==
  [][ (~AnyConflict(blocks, isWrappingEnabled) /\ ~(last'.op = "shuffle" /\ last'.warned))
      => ~AnyConflict(blocks', isWrappingEnabled') ]_vars

\* C2: updateBlock and each of the nine strategies leave every locked block
\* with the start and the duration it had before the call.
C2_LockedBlocksStay ==
  [][ last'.op \in {"updateBlock", "shuffle"} =>
        \A i \in 1..Len(blocks) :
          blocks[i].isLocked =>
            /\ HasBlock(blocks', blocks[i].id)
            /\ GetBlock(blocks', blocks[i].id).start = blocks[i].start
            /\ GetBlock(blocks', blocks[i].id).duration = blocks[i].duration ]_vars

\* A strategy has run over a collection with a locked block and a block that
\* is not locked.
C2_Witness ==
  /\ last.op = "shuffle" /\ last.result = "done"
  /\ \E i, j \in 1..Len(blocks) : blocks[i].isLocked /\ ~blocks[j].isLocked

\* C3: when allowOverlap is false and the block addBlock builds conflicts with
\* a block of the collection, addBlock returns null and the collection is what
\* it was before the call.
C3_AddConflictRejected ==
  [][ ( /\ last'.op = "addBlock"
        /\ ~allowOverlap
        /\ BlockDataValid(last'.data)
        /\ HasConflict(blocks, NewBlock(AddCompleteData(blocks, last'.data)), NoExclude,
                       FALSE, isWrappingEnabled) )
      => (last'.result = "null" /\ blocks' = blocks) ]_vars

\* A conflicting addBlock has just been refused with a block in the collection.
C3_Witness ==
  /\ last.op = "addBlock" /\ last.result = "null" /\ ~allowOverlap
  /\ Len(blocks) = 1
  /\ HasConflict(blocks, NewBlock(AddCompleteData(blocks, last.data)), NoExclude, FALSE,
                 isWrappingEnabled)

\* The color updateBlock stores for the color it is given.
StoredColor(color) == IF color.kind = "hex" THEN HexToHsl(color) ELSE color

\* C4: updateBlock is all or nothing.  When it returns false for a locked block
\* or a conflict no block has changed; when it returns true the fields of the
\* data, and only those, have been applied to the block named, and every other
\* block is as it was.
C4_UpdateAllOrNothing ==
  [][ last'.op = "updateBlock" =>
        /\ (last'.result = "false" /\ last'.reason \in {"locked", "conflict"}) => blocks' = blocks
        /\ last'.result = "true" =>
             /\ Len(blocks') = Len(blocks)
             /\ \A i \in 1..Len(blocks) :
                  IF blocks[i].id # last'.id THEN blocks'[i] = blocks[i]
                  ELSE LET d == last'.data
                           b == blocks[i]
                       IN blocks'[i] =
                            [id |-> b.id, isLocked |-> b.isLocked,
                             title |-> IF "title" \in d.has THEN d.title ELSE b.title,
                             start |-> IF "start" \in d.has THEN d.start ELSE b.start,
                             duration |-> IF "duration" \in d.has THEN d.duration ELSE b.duration,
                             color |-> IF "color" \in d.has THEN StoredColor(d.color) ELSE b.color]
    ]_vars

\* An update of a start and a duration has been refused for a conflict while
\* another block stands in the collection.
C4_Witness ==
  /\ last.op = "updateBlock" /\ last.result = "false" /\ last.reason = "conflict"
  /\ last.data.has = {"start", "duration"}
  /\ Len(blocks) = 2

\* C5: for an id that is not in the collection updateBlock returns false,
\* removeBlock returns false and duplicateBlock returns null; none throws and
\* none changes the collection.
C5_UnknownId ==
  [][ (last'.op \in {"updateBlock", "removeBlock", "duplicateBlock"} /\ ~HasBlock(blocks, last'.id))
      => /\ blocks' = blocks
         /\ last'.op = "updateBlock" => last'.result = "false"
         /\ last'.op = "removeBlock" => last'.result = "false"
         /\ last'.op = "duplicateBlock" => last'.result = "null" ]_vars

\* removeBlock has been called with an id no block has, on a collection that is
\* not empty.
C5_Witness ==
  /\ last.op = "removeBlock" /\ last.id = UnknownId /\ last.result = "false"
  /\ Len(blocks) > 0

\* C6: in every reachable state every block of the collection has a duration
\* above zero.
C6_DurationPositive == \A i \in 1..Len(blocks) : blocks[i].duration > 0

\* C7: in every reachable state every block of the collection has a start of
\* at least 0 and below 24 hours.
C7_StartInDay == \A i \in 1..Len(blocks) : blocks[i].start >= 0 /\ blocks[i].start < DAY

\* C8: the search duplicateBlock makes for a free start ends after at most 96
\* quarter-hour steps, whatever the collection.
C8_AdjustTerminates ==
  last.op = "duplicateBlock" => (~last.overflow /\ last.steps <= DAY \div Q)


\* The start Block.duplicate gives the copy of a block.
DuplicateCandidate(b) == JsMod(b.start + b.duration, DAY)

\* C9: duplicateBlock on a block of the collection, when the start after the
\* end of the original (modulo 24 hours) conflicts with nothing or overlap is
\* allowed, adds one block with an id no block had, the title, duration and
\* color of the original, and that start.
C9_DuplicateCopies ==
  [][ ( /\ last'.op = "duplicateBlock"
        /\ HasBlock(blocks, last'.id)
        /\ \/ allowOverlap
           \/ ~HasConflict(blocks, [GetBlock(blocks, last'.id) EXCEPT
                                      !.id = TempId,
                                      !.start = DuplicateCandidate(GetBlock(blocks, last'.id))],
                           NoExclude, FALSE, isWrappingEnabled) )
      => /\ Len(blocks') = Len(blocks) + 1
         /\ SubSeq(blocks', 1, Len(blocks)) = blocks
         /\ blocks'[Len(blocks')].id \notin BlockIds(blocks)
         /\ blocks'[Len(blocks')].title = GetBlock(blocks, last'.id).title
         /\ blocks'[Len(blocks')].duration = GetBlock(blocks, last'.id).duration
         /\ blocks'[Len(blocks')].color = GetBlock(blocks, last'.id).color
         /\ blocks'[Len(blocks')].start = DuplicateCandidate(GetBlock(blocks, last'.id)) ]_vars

\* C10, as the code has it: with allowOverlap false, when duplicateBlock
\* returns an id the new block conflicts with no block the collection held
\* before the call, and its start is the one reached from the start after the
\* original by the steps the search made, each a quarter hour on modulo 24
\* hours, or back to 0 when wrapping is disabled and the block would end after
\* 24 hours.
C10_DuplicateAvoidsConflicts ==
  [][ (last'.op = "duplicateBlock" /\ last'.result = "id" /\ ~allowOverlap)
      => /\ ~HasConflict(blocks, blocks'[Len(blocks')], NoExclude, FALSE, isWrappingEnabled)
         /\ blocks'[Len(blocks')].start =
              AdjustStartsTried(DuplicateCandidate(GetBlock(blocks, last'.id)), last'.steps + 1,
                                GetBlock(blocks, last'.id).duration,
                                isWrappingEnabled)[last'.steps + 1] ]_vars

\* duplicateBlock has returned an id, with overlap disallowed and wrapping
\* disabled, after a search that advanced the start.
C10_Witness ==
  /\ last.op = "duplicateBlock" /\ last.result = "id" /\ last.steps > 0
  /\ ~allowOverlap /\ ~isWrappingEnabled

\* C10 as stated: the start of the new block is the start after the original
\* advanced by a quarter hour modulo 24 hours at each step of the search.
C10_StepsModuloDay ==
  [][ (last'.op = "duplicateBlock" /\ last'.result = "id" /\ ~allowOverlap)
      => /\ ~HasConflict(blocks, blocks'[Len(blocks')], NoExclude, FALSE, isWrappingEnabled)
         /\ blocks'[Len(blocks')].start =
              JsMod(DuplicateCandidate(GetBlock(blocks, last'.id)) + last'.steps * Q, DAY) ]_vars


\* An unlocked block and a locked block of the collection overlap, as
\* Timeline.blocksOverlap judges.
LockedOverlap(bs, wrap) ==
  \E i, j \in 1..Len(bs) : /\ ~bs[i].isLocked /\ bs[j].isLocked
                           /\ BlocksOverlap(bs[i], bs[j], wrap)

\* C11: with allowOverlap false, after a strategy that showed no overlap
\* warning no unlocked block overlaps a locked block; stated for a collection
\* that held no conflict before the strategy ran.
C11_LockedAreObstacles ==
  [][ ( /\ last'.op = "shuffle" /\ last'.result = "done"
        /\ ~allowOverlap /\ ~last'.warned
        /\ ~AnyConflict(blocks, isWrappingEnabled) )
      => ~LockedOverlap(blocks', isWrappingEnabled') ]_vars


\* The search of findValidPosition comes back empty-handed: the preferred start
\* conflicts and so does every quarter hour that may be returned.
NoValidPosition(placedBlocks, preferredStart, duration, wrap) ==
  /\ CheckForTimeConflicts(placedBlocks, preferredStart, duration, wrap)
  /\ \A h \in Quarters : \/ CheckForTimeConflicts(placedBlocks, h, duration, wrap)
                         \/ ~(wrap \/ h + duration <= DAY)

\* layoutBlocksSequentially over the blocks in this order meets a block for
\* which findValidPosition has no free position.
SequentialForced(bs, strategy, order, overlap, wrap) ==
  \E k \in 1..Len(order) :
    LET st == WalkBlocks(strategy, StrategyStart(bs), SubSeq(order, 1, k - 1), 1,
                         SequentialGap[strategy], overlap, wrap)
    IN /\ ~st.thrown
       /\ NoValidPosition(st.placedBlocks, st.currentStart,
                          GetBlock(bs, order[k]).duration, wrap)

\* C12: a run of the priority strategy in which the search found no free
\* position for some block shows the overlap warning and ends without an
\* exception; stated for some order of the blocks that explains the outcome.
C12_ForcedPlacementWarns ==
  [][ (last'.op = "shuffle" /\ last'.strategy = "priority" /\ Len(ShuffleCandidates(blocks)) > 0)
      => \E order \in PriorityOrders(BlockIds(ShuffleCandidates(blocks))) :
           /\ blocks' = ApplySequentialStrategy(blocks, "priority", order, allowOverlap,
                                                isWrappingEnabled).bs
           /\ SequentialForced(blocks, "priority", order, allowOverlap, isWrappingEnabled)
                => (last'.warned /\ last'.result = "done") ]_vars


(***************************************************************************)
(* The search loops of the strategies, one iteration at a time: the while   *)
(* loops of applyRandomStrategy, applyClusteredStrategy and                 *)
(* Timeline.placeBlocksSequentially, for one block of the batch.  The       *)
(* blocks placed earlier in the batch stand among the obstacles as the      *)
(* locked blocks do.                                                       *)
(***************************************************************************)
\* The count of attempts without its increment.
KeepAttempts(attempts) == attempts

\* attempts++
NextAttempts(attempts) == attempts + 1

\* The obstacles the searches run against: none, the first half of the day,
\* the whole day in two halves, one block that crosses midnight.
SearchObstacles ==
  { <<>>,
    << [start |-> 0, duration |-> 12 * HOUR] >>,
    << [start |-> 0, duration |-> 12 * HOUR], [start |-> 12 * HOUR, duration |-> 12 * HOUR] >>,
    << [start |-> 12 * HOUR, duration |-> 23 * HOUR + 2 * Q] >> }

\* The collections the searches start from: locked obstacles and one unlocked
\* block after them.
SearchCollections ==
  { [i \in 1..(Len(o) + 1) |->
       IF i <= Len(o)
       THEN [NewBlock([id |-> i, title |-> "Work call", start |-> o[i].start,
                       duration |-> o[i].duration, color |-> Red]) EXCEPT !.isLocked = TRUE]
       ELSE NewBlock([id |-> i, title |-> t.title, start |-> st, duration |-> t.duration,
                      color |-> t.color])] :
      o \in SearchObstacles, t \in AddTemplates, st \in AddStarts }

\* The running starts a block's turn begins with.
SearchStarts == {0, 11 * HOUR + 2 * Q, 23 * HOUR + 2 * Q}

InitSearch ==
  /\ blocks \in SearchCollections
  /\ isWrappingEnabled \in BOOLEAN
  /\ allowOverlap \in BOOLEAN
  /\ last = NoCall
  /\ calls = 0
  /\ search = NoSearch
  /\ use24HourFormat = TRUE
  /\ saved = NoSnapshot
  /\ gesture = NoGesture

\* The end of a block's turn: updateBlock is handed the start.
SearchWrite(from, bs, start, pc, warned) ==
  /\ blocks' = UpdateBlockCore(bs, from.id, StartOnly(start), allowOverlap, isWrappingEnabled).bs
  /\ search' = [from EXCEPT
                  !.pc = IF UpdateBlockCore(bs, from.id, StartOnly(start), allowOverlap,
                                            isWrappingEnabled).result = "throws"
                         THEN "thrown" ELSE pc,
                  !.tryStart = start, !.warned = warned]
  /\ saved' = IF UpdateBlockCore(bs, from.id, StartOnly(start), allowOverlap,
                                 isWrappingEnabled).result = "true"
              THEN Emitted(Serialize(blocks', isWrappingEnabled, allowOverlap,
                                     use24HourFormat))
              ELSE saved

\* A block's turn up to its while loop.  The random and the clustered strategy
\* move a block that would cross the end of the day to 0 first; the clustered
\* strategy enters its loop only on a conflict at the running start.
StartSearch(loop, id, start) ==
  /\ search.pc = "idle"
  /\ id \in BlockIds(ShuffleCandidates(blocks))
  /\ LET duration == GetBlock(blocks, id).duration
         currentStart == IF /\ loop # "simple" /\ ~isWrappingEnabled /\ ~allowOverlap
                            /\ start + duration > DAY
                         THEN 0 ELSE start
         from == [NoSearch EXCEPT !.loop = loop, !.pc = "loop", !.id = id,
                                  !.placedBlocks = GetLockedBlocksAsPlaced(blocks),
                                  !.currentStart = currentStart, !.tryStart = currentStart]
     IN IF /\ loop = "clustered"
           /\ \/ allowOverlap
              \/ ~CheckForTimeConflicts(from.placedBlocks, currentStart, duration,
                                        isWrappingEnabled)
        THEN SearchWrite(from, blocks, currentStart, "placed", FALSE)
        ELSE search' = from /\ UNCHANGED <<blocks, saved>>
  /\ UNCHANGED <<isWrappingEnabled, allowOverlap, last, calls, use24HourFormat, gesture>>

\* One iteration of the while loop of applyRandomStrategy, or its end after
\* the last attempt.
RandomStep ==
  /\ search.pc = "loop" /\ search.loop = "random"
  /\ LET block == GetBlock(blocks, search.id)
     IN IF search.attempts >= RandomMaxAttempts
        THEN SearchWrite(search, blocks, search.currentStart, "forced", TRUE)
        ELSE IF ~RandomHasConflict(search.placedBlocks, search.id, search.tryStart,
                                   block.duration, allowOverlap, isWrappingEnabled)
        THEN SearchWrite(search,
                         SetBlock(blocks, search.id, [block EXCEPT !.start = search.tryStart]),
                         search.tryStart, "placed", FALSE)
        ELSE /\ search' = [search EXCEPT !.tryStart = JsMod(@ + Q, DAY),
                                         !.attempts = NextAttempts(@)]
             /\ UNCHANGED <<blocks, saved>>
  /\ UNCHANGED <<isWrappingEnabled, allowOverlap, last, calls, use24HourFormat, gesture>>

\* One iteration of the while loop of applyClusteredStrategy, or its end.
ClusteredStep ==
  /\ search.pc = "loop" /\ search.loop = "clustered"
  /\ LET block == GetBlock(blocks, search.id)
         tryStart == JsMod(search.tryStart + Q, DAY)
     IN IF search.attempts >= ClusteredMaxAttempts
        THEN SearchWrite(search, blocks, 0, "forced", TRUE)
        ELSE IF /\ ~CheckForTimeConflicts(search.placedBlocks, tryStart, block.duration,
                                          isWrappingEnabled)
                /\ (~isWrappingEnabled \/ tryStart + block.duration <= DAY \/ allowOverlap)
        THEN SearchWrite([search EXCEPT !.attempts = NextAttempts(@)], blocks, tryStart,
                         "placed", FALSE)
        ELSE /\ search' = [search EXCEPT !.tryStart = tryStart, !.attempts = NextAttempts(@)]
             /\ UNCHANGED <<blocks, saved>>
  /\ UNCHANGED <<isWrappingEnabled, allowOverlap, last, calls, use24HourFormat, gesture>>

\* One iteration of the while loop of placeBlocksSequentially, or its end.
SequentialStep ==
  /\ search.pc = "loop" /\ search.loop = "simple"
  /\ LET block == GetBlock(blocks, search.id)
         stepped == IF isWrappingEnabled THEN JsMod(search.tryStart + Q, DAY)
                    ELSE search.tryStart + Q
     IN IF search.attempts >= SequentialMaxAttempts(isWrappingEnabled)
        THEN SearchWrite(search, blocks, search.currentStart, "forced", FALSE)
        ELSE IF ~SequentialHasConflict(search.placedBlocks, search.id, search.tryStart,
                                       block.duration, allowOverlap, isWrappingEnabled)
        THEN SearchWrite(search, blocks, search.tryStart, "placed", FALSE)
        ELSE /\ search' = [search EXCEPT
                             !.tryStart = IF ~isWrappingEnabled /\ stepped >= DAY THEN 0
                                          ELSE stepped,
                             !.attempts = NextAttempts(@)]
             /\ UNCHANGED <<blocks, saved>>
  /\ UNCHANGED <<isWrappingEnabled, allowOverlap, last, calls, use24HourFormat, gesture>>

(***************************************************************************)
(* The scans of findValidPosition and findBestGap, step by step            *)
(***************************************************************************)
\* n obstacles of a quarter of an hour each, back to back from 0.
BackToBack(n) == [k \in 1..n |-> Placed(k, (k - 1) * Q, Q)]

\* The obstacle lists the scans are run against: none, two halves of the day,
\* a morning block and a noon block, and the whole day in quarters of an hour.
ScanObstacles ==
  { <<>>,
    <<Placed(1, 0, 12 * HOUR), Placed(2, 12 * HOUR, 12 * HOUR)>>,
    <<Placed(1, 0, 2 * HOUR), Placed(2, 5 * HOUR, HOUR)>>,
    BackToBack(DAY \div Q) }

\* A scan whose candidate comes back to 0 after the last quarter of the day.
ScanHourAround(hour, step) == JsMod(hour + step, DAY)

\* The candidate after this one: hour += 0.25 in findValidPosition, hour++ in
\* findBestGap.
NextScanHour(hour, step) == hour + step

\* findValidPosition up to its for loop: the preferred start is returned when
\* it is free.  findBestGap up to its sweep: 0 is returned for no obstacle,
\* and otherwise the time points are collected and sorted.
StartScan(loop, id, placedBlocks, preferredStart) ==
  /\ search.pc = "idle"
  /\ GetLockedBlocksAsPlaced(blocks) = <<>>
  /\ id \in BlockIds(ShuffleCandidates(blocks))
  /\ loop = "gap" => preferredStart = 0
  /\ search' =
       [NoSearch EXCEPT
          !.loop = loop, !.id = id, !.placedBlocks = placedBlocks,
          !.points = IF loop = "gap" /\ Len(placedBlocks) > 0
                     THEN SortPoints(WithBoundaries(BlockTimePoints(placedBlocks),
                                                    isWrappingEnabled))
                     ELSE <<>>,
          !.currentStart = IF loop = "valid" THEN preferredStart ELSE 0,
          !.tryStart = IF loop = "valid"
                          /\ ~CheckForTimeConflicts(placedBlocks, preferredStart,
                                                    GetBlock(blocks, id).duration,
                                                    isWrappingEnabled)
                       THEN preferredStart ELSE 0,
          !.pc = IF loop = "valid"
                 THEN IF CheckForTimeConflicts(placedBlocks, preferredStart,
                                               GetBlock(blocks, id).duration,
                                               isWrappingEnabled)
                      THEN "scan" ELSE "returned"
                 ELSE IF Len(placedBlocks) = 0 THEN "returned" ELSE "sweep"]
  /\ UNCHANGED <<blocks, isWrappingEnabled, allowOverlap, last, calls, use24HourFormat, saved, gesture>>

\* One turn of the for loop of findValidPosition; search.tryStart is its hour.
ValidStep ==
  /\ search.loop = "valid"
  /\ search.pc = "scan"
  /\ search' =
       IF ~(search.tryStart < DAY)
       THEN [search EXCEPT !.pc = "returned", !.tryStart = search.currentStart]
       ELSE IF /\ ~CheckForTimeConflicts(search.placedBlocks, search.tryStart,
                                         GetBlock(blocks, search.id).duration,
                                         isWrappingEnabled)
               /\ (isWrappingEnabled
                   \/ search.tryStart + GetBlock(blocks, search.id).duration <= DAY)
       THEN [search EXCEPT !.pc = "returned"]
       ELSE [search EXCEPT !.tryStart = NextScanHour(search.tryStart, Q),
                           !.attempts = NextAttempts(search.attempts)]
  /\ UNCHANGED <<blocks, isWrappingEnabled, allowOverlap, last, calls, use24HourFormat, saved, gesture>>

\* One time point of the sweep of findBestGap: a gap is recorded when no block
\* is open and the point lies after the last one.
SweepPoint(acc, point) ==
  [gaps |-> IF acc.openBlocks = 0 /\ point.time > acc.lastTime
            THEN Append(acc.gaps, [start |-> acc.lastTime,
                                   duration |-> point.time - acc.lastTime])
            ELSE acc.gaps,
   openBlocks |-> IF point.type = "start" THEN acc.openBlocks + 1
                  ELSE IF point.type = "end" THEN Max(0, acc.openBlocks - 1)
                  ELSE acc.openBlocks,
   lastTime |-> point.time]

\* findBestGap once its sweep is over: the start of the best gap, or the scan
\* of the whole hours.
AfterSweep(from, gaps, duration) ==
  IF SuitableGaps(gaps, duration) # {}
  THEN [from EXCEPT !.pc = "returned",
                    !.tryStart = gaps[SmallestGap(gaps, SuitableGaps(gaps, duration))].start]
  ELSE [from EXCEPT !.pc = "hours", !.tryStart = 0]

\* One turn of findBestGap: a time point of the sweep over search.points, or a
\* whole hour of the last resort; search.attempts counts both.
GapStep ==
  /\ search.loop = "gap"
  /\ search.pc \in {"sweep", "hours"}
  /\ search' =
       IF search.pc = "sweep"
       THEN IF search.attempts < Len(search.points)
            THEN [search EXCEPT !.sweep = SweepPoint(search.sweep,
                                                     search.points[search.attempts + 1]),
                                !.attempts = NextAttempts(search.attempts)]
            ELSE AfterSweep(search, WithWrapGap(search.points, search.sweep,
                                                isWrappingEnabled),
                            GetBlock(blocks, search.id).duration)
       ELSE IF ~(search.tryStart < DAY)
       THEN [search EXCEPT !.pc = "returned", !.tryStart = 0]
       ELSE IF /\ ~CheckForTimeConflicts(search.placedBlocks, search.tryStart,
                                         GetBlock(blocks, search.id).duration,
                                         isWrappingEnabled)
               /\ ~(~isWrappingEnabled
                    /\ search.tryStart + GetBlock(blocks, search.id).duration > DAY)
       THEN [search EXCEPT !.pc = "returned"]
       ELSE [search EXCEPT !.tryStart = NextScanHour(search.tryStart, HOUR),
                           !.attempts = NextAttempts(search.attempts)]
  /\ UNCHANGED <<blocks, isWrappingEnabled, allowOverlap, last, calls, use24HourFormat, saved, gesture>>

SearchStep == RandomStep \/ ClusteredStep \/ SequentialStep \/ ValidStep \/ GapStep

NextSearch ==
  \/ \E loop \in {"random", "clustered", "simple"}, id \in BlockIds(blocks),
          start \in SearchStarts :
       StartSearch(loop, id, start)
  \/ \E loop \in {"valid", "gap"}, id \in BlockIds(blocks),
          placedBlocks \in ScanObstacles, start \in SearchStarts :
       StartScan(loop, id, placedBlocks, start)
  \/ RandomStep
  \/ ClusteredStep
  \/ SequentialStep
  \/ ValidStep
  \/ GapStep

\* The loops run on the one thread of the page, from their first iteration to
\* their end: an iteration that can be taken is taken.
SpecSearch == InitSearch /\ [][NextSearch]_vars /\ WF_vars(SearchStep)

\* C13: a search loop that has begun ends, whatever the obstacles and the
\* wrap and overlap settings, a day covered by locked blocks included.
C13_SearchTerminates == (search.pc = "loop") ~> (search.pc # "loop")

\* A search that ran out of attempts against locked blocks covering the day.
C13_Witness ==
  /\ search.pc = "forced"
  /\ search.attempts = SequentialMaxAttempts(isWrappingEnabled)
  /\ search.loop = "simple"
  /\ Len(search.placedBlocks) = 2


(***************************************************************************)
(* The helpers of the ShuffleManager called on their own: the arguments    *)
(* are drawn at the start and the call puts its result beside them.        *)
(***************************************************************************)
\* The starts and ends timeRangesOverlap is called with.
RangeTimes == {0, HOUR, 2 * HOUR, 23 * HOUR, 23 * HOUR + 2 * Q, DAY, DAY + HOUR}

\* The calls of timeRangesOverlap, not yet made.
RangeCalls ==
  { [op |-> "none", fn |-> "timeRangesOverlap", start1 |-> s1, end1 |-> e1, start2 |-> s2,
     end2 |-> e2, placedBlocks |-> <<>>, duration |-> 0, result |-> FALSE, start |-> 0,
     other |-> FALSE] :
      s1 \in RangeTimes, e1 \in RangeTimes, s2 \in RangeTimes, e2 \in RangeTimes }

\* The lists of placed blocks findBestGap is called with: none, the blocks
\* 0-2 and 5-6 in both orders, blocks with gaps of 1, 3 and 14 hours between
\* them, adjacent blocks, one block inside another, the whole day, a block
\* that crosses midnight, a block that runs on past the end of the day.
GapObstacles ==
  { <<>>,
    << Placed(1, 0, 2 * HOUR), Placed(2, 5 * HOUR, HOUR) >>,
    << Placed(1, 5 * HOUR, HOUR), Placed(2, 0, 2 * HOUR) >>,
    << Placed(1, HOUR, 2 * HOUR), Placed(2, 6 * HOUR, 4 * HOUR) >>,
    << Placed(1, 2 * HOUR, 2 * HOUR), Placed(2, 4 * HOUR, 2 * HOUR) >>,
    << Placed(1, 0, 3 * HOUR), Placed(2, HOUR, HOUR) >>,
    << Placed(1, 0, 12 * HOUR), Placed(2, 12 * HOUR, 12 * HOUR) >>,
    << Placed(1, 23 * HOUR, 2 * HOUR) >>,
    << Placed(1, 2 * HOUR, 23 * HOUR + 2 * Q) >> }

\* The durations findBestGap is asked to fit.
GapDurations == {Q, 2 * Q, HOUR, 2 * HOUR, 3 * HOUR, 14 * HOUR, 23 * HOUR}

\* The calls of findBestGap, not yet made.
GapCalls ==
  { [op |-> "none", fn |-> "findBestGap", start1 |-> 0, end1 |-> 0, start2 |-> 0,
     end2 |-> 0, placedBlocks |-> o, duration |-> d, result |-> FALSE, start |-> 0,
     other |-> FALSE] :
      o \in GapObstacles, d \in GapDurations }

\* The preferred starts findValidPosition is called with.
PreferredStarts == {0, 2 * HOUR, 5 * HOUR, 23 * HOUR + Q}

\* The calls of findValidPosition, not yet made: the lists of findBestGap and
\* a block that fills the last half hour of the day.
PositionCalls ==
  { [op |-> "none", fn |-> "findValidPosition", start1 |-> p, end1 |-> 0, start2 |-> 0,
     end2 |-> 0, placedBlocks |-> o, duration |-> d, result |-> FALSE, start |-> 0,
     other |-> FALSE] :
      p \in PreferredStarts,
      o \in GapObstacles \cup { << Placed(1, 23 * HOUR + 2 * Q, 2 * Q) >> },
      d \in GapDurations }

\* The starts and durations of the spans the two conflict tests are asked
\* about: spans that touch, that share time, that end at midnight, that cross
\* it, and one as long as the day.
SpanStarts == {0, HOUR, 22 * HOUR, 23 * HOUR}
SpanDurations == {HOUR, 2 * HOUR, 3 * HOUR, DAY}

\* The calls on a pair of spans, not yet made: start1 to end1 is the span of
\* the first block, start2 to end2 the span of the second.
SpanCalls ==
  { [op |-> "none", fn |-> f, start1 |-> s1, end1 |-> s1 + d1, start2 |-> s2,
     end2 |-> s2 + d2, placedBlocks |-> <<>>, duration |-> 0, result |-> FALSE, start |-> 0,
     other |-> FALSE] :
      f \in {"blocksOverlap", "conflictTests"},
      s1 \in SpanStarts, d1 \in SpanDurations, s2 \in SpanStarts, d2 \in SpanDurations }

\* The block of a span, as the constructor builds it.
SpanBlock(id, start, end) ==
  NewBlock([id |-> id, title |-> "Nap", start |-> start, duration |-> end - start,
            color |-> NoColor])

\* findBestGap is called this many times with the same arguments.
MaxRepeats == 2

InitHelpers ==
  /\ blocks = <<>>
  /\ isWrappingEnabled \in BOOLEAN
  /\ allowOverlap = FALSE
  /\ last \in RangeCalls \cup GapCalls \cup PositionCalls \cup SpanCalls
  /\ calls = 0
  /\ search = NoSearch
  /\ use24HourFormat = TRUE
  /\ saved = NoSnapshot
  /\ gesture = NoGesture

\* timeRangesOverlap(start1, end1, start2, end2, this.timeline.isWrappingEnabled).
CallTimeRangesOverlap ==
  /\ last.op = "none" /\ last.fn = "timeRangesOverlap"
  /\ last' = [last EXCEPT !.op = "called",
                          !.result = TimeRangesOverlap(last.start1, last.end1, last.start2,
                                                       last.end2, isWrappingEnabled),
                          !.other = TimeRangesOverlap(last.start2, last.end2, last.start1,
                                                      last.end1, isWrappingEnabled)]
  /\ UNCHANGED <<blocks, isWrappingEnabled, allowOverlap, calls, search, use24HourFormat, saved, gesture>>

\* findBestGap(placedBlocks, duration), which reads this.timeline.isWrappingEnabled
\* and assigns to nothing but its own locals.
CallFindBestGap ==
  /\ last.fn = "findBestGap"
  /\ calls < MaxRepeats
  /\ calls' = calls + 1
  /\ last' = [last EXCEPT !.op = "called",
                          !.start = FindBestGap(last.placedBlocks, last.duration,
                                                isWrappingEnabled)]
  /\ UNCHANGED <<blocks, isWrappingEnabled, allowOverlap, search, use24HourFormat, saved, gesture>>

\* findValidPosition(placedBlocks, preferredStart, duration).
CallFindValidPosition ==
  /\ last.op = "none" /\ last.fn = "findValidPosition"
  /\ last' = [last EXCEPT !.op = "called",
                          !.start = FindValidPosition(last.placedBlocks, last.start1,
                                                      last.duration, isWrappingEnabled)]
  /\ UNCHANGED <<blocks, isWrappingEnabled, allowOverlap, calls, search, use24HourFormat, saved, gesture>>

\* blocksOverlap(a, b) and blocksOverlap(b, a) on the blocks of two spans.
CallBlocksOverlap ==
  /\ last.op = "none" /\ last.fn = "blocksOverlap"
  /\ LET a == SpanBlock(1, last.start1, last.end1)
         b == SpanBlock(2, last.start2, last.end2)
     IN last' = [last EXCEPT !.op = "called",
                             !.result = BlocksOverlap(a, b, isWrappingEnabled),
                             !.other = BlocksOverlap(b, a, isWrappingEnabled)]
  /\ UNCHANGED <<blocks, isWrappingEnabled, allowOverlap, calls, search, use24HourFormat, saved, gesture>>

\* The two conflict tests on the same candidate and the same obstacle:
\* hasConflict(block) on a collection that holds the obstacle, and
\* checkForTimeConflicts(placedBlocks, start, duration, wrap) on the list
\* that holds it.
CallConflictTests ==
  /\ last.op = "none" /\ last.fn = "conflictTests"
  /\ LET a == SpanBlock(TempId, last.start1, last.end1)
         b == SpanBlock(1, last.start2, last.end2)
     IN last' = [last EXCEPT
                   !.op = "called",
                   !.result = HasConflict(<<b>>, a, NoExclude, allowOverlap, isWrappingEnabled),
                   !.other = CheckForTimeConflicts(<<Placed(b.id, b.start, b.duration)>>,
                                                   a.start, a.duration, isWrappingEnabled)]
  /\ UNCHANGED <<blocks, isWrappingEnabled, allowOverlap, calls, search, use24HourFormat, saved, gesture>>

NextHelpers ==
  \/ CallTimeRangesOverlap
  \/ CallBlocksOverlap
  \/ CallConflictTests
  \/ CallFindBestGap
  \/ CallFindValidPosition

SpecHelpers == InitHelpers /\ [][NextHelpers]_vars

\* A time of day as timeRangesOverlap normalises a start.
NormalStart(t) == JsMod(t, DAY)

\* A time of day as timeRangesOverlap normalises an end: 0 stands for 24.
NormalEnd(t) == IF JsMod(t, DAY) = 0 THEN DAY ELSE JsMod(t, DAY)

\* The end of a range once a range that wraps is cut at 24.
ClampedEnd(start, end) ==
  IF NormalEnd(end) <= NormalStart(start) THEN DAY ELSE NormalEnd(end)

\* C14: with wrap disallowed, timeRangesOverlap gives the standard test on the
\* ranges with every range that wraps cut at 24.
C14_ClampedStandardTest ==
  (last.op = "called" /\ last.fn = "timeRangesOverlap" /\ ~isWrappingEnabled)
    => last.result = ( /\ NormalStart(last.start1) < ClampedEnd(last.start2, last.end2)
                       /\ ClampedEnd(last.start1, last.end1) > NormalStart(last.start2) )


\* Whether a range wraps: its normalised end is not after its start.
RangeWraps(start, end) == NormalEnd(end) <= NormalStart(start)

\* C15: with wrap allowed, timeRangesOverlap gives true when both ranges wrap,
\* and when exactly one wraps it gives "the other starts before the wrapping
\* range ends or ends after it starts", an end of 0 standing for 24.
C15_WrappingRanges ==
  (last.op = "called" /\ last.fn = "timeRangesOverlap" /\ isWrappingEnabled)
    => /\ (RangeWraps(last.start1, last.end1) /\ RangeWraps(last.start2, last.end2))
            => last.result
       /\ (RangeWraps(last.start1, last.end1) /\ ~RangeWraps(last.start2, last.end2))
            => last.result = ( \/ NormalStart(last.start2) < NormalEnd(last.end1)
                               \/ NormalEnd(last.end2) > NormalStart(last.start1) )
       /\ (~RangeWraps(last.start1, last.end1) /\ RangeWraps(last.start2, last.end2))
            => last.result = ( \/ NormalStart(last.start1) < NormalEnd(last.end2)
                               \/ NormalEnd(last.end1) > NormalStart(last.start2) )

\* A range that wraps and one that does not, found apart: 23:00-01:00 and a
\* range inside the rest of the day.
C15_Witness ==
  /\ last.op = "called" /\ last.fn = "timeRangesOverlap" /\ isWrappingEnabled
  /\ RangeWraps(last.start1, last.end1) /\ ~RangeWraps(last.start2, last.end2)
  /\ ~last.result


\* The candidate lies inside the tail [0, (start + duration) mod 24) of a block
\* that crosses midnight.
InWrappedTail(candidate, b) ==
  /\ b.start < DAY /\ b.duration < DAY /\ b.start + b.duration > DAY
  /\ candidate.start >= 0
  /\ candidate.start + candidate.duration <= JsMod(b.start + b.duration, DAY)

\* C16: with wrap enabled and overlap disallowed, a block asked for inside the
\* wrapped tail of a block that crosses midnight is a conflict for hasConflict
\* and addBlock refuses it.
C16_WrappedTailConflict ==
  [][ ( /\ last'.op = "addBlock"
        /\ isWrappingEnabled /\ ~allowOverlap
        /\ BlockDataValid(last'.data)
        /\ \E i \in 1..Len(blocks) : InWrappedTail(last'.data, blocks[i]) )
      => ( /\ HasConflict(blocks, NewBlock(AddCompleteData(blocks, last'.data)), NoExclude,
                          allowOverlap, isWrappingEnabled)
           /\ last'.result = "null"
           /\ blocks' = blocks ) ]_vars

\* addBlock has just refused a block asked for inside the wrapped tail of a
\* block of the collection.
C16_Witness ==
  /\ last.op = "addBlock" /\ last.result = "null"
  /\ isWrappingEnabled /\ ~allowOverlap
  /\ \E i \in 1..Len(blocks) : InWrappedTail(last.data, blocks[i])


\* C17: hasConflict is false when allowOverlap is true or the collection is
\* empty: addBlock of valid data then inserts the block, and with allowOverlap
\* true updateBlock of an unlocked block is not refused.
C17_OverlapAllowedNeverRejects ==
  [][ /\ ( /\ last'.op = "addBlock"
           /\ (allowOverlap \/ Len(blocks) = 0)
           /\ BlockDataValid(last'.data) )
         => ( /\ ~HasConflict(blocks, NewBlock(AddCompleteData(blocks, last'.data)), NoExclude,
                              allowOverlap, isWrappingEnabled)
              /\ last'.result = "id"
              /\ blocks' = Append(blocks, NewBlock(AddCompleteData(blocks, last'.data))) )
      /\ ( /\ last'.op = "updateBlock"
           /\ allowOverlap
           /\ HasBlock(blocks, last'.id)
           /\ ~GetBlock(blocks, last'.id).isLocked )
         => ( /\ last'.result = "true"
              /\ last'.reason # "conflict" ) ]_vars

\* With allowOverlap true a block has just been added over a block of the
\* collection, or moved onto one by updateBlock.
C17_Witness ==
  /\ allowOverlap
  /\ last.op \in {"addBlock", "updateBlock"}
  /\ last.result \in {"id", "true"}
  /\ "start" \in last.data.has
  /\ AnyConflict(blocks, isWrappingEnabled)


\* The block b as an updateBlock with this data asks for it.
MovedSpan(b, data) ==
  [b EXCEPT !.start = IF "start" \in data.has THEN data.start ELSE b.start,
            !.duration = IF "duration" \in data.has THEN data.duration ELSE b.duration]

\* C18: with overlap disallowed, an updateBlock that moves or resizes an
\* unlocked block to a span that overlaps the span it had, and no other block,
\* succeeds: the block itself is no obstacle.
C18_OwnSpanNoObstacle ==
  [][ ( /\ last'.op = "updateBlock"
        /\ ~allowOverlap
        /\ HasBlock(blocks, last'.id)
        /\ ~GetBlock(blocks, last'.id).isLocked
        /\ MovedSpan(GetBlock(blocks, last'.id), last'.data) # GetBlock(blocks, last'.id)
        /\ BlockDataValid(MovedSpan(GetBlock(blocks, last'.id), last'.data))
        /\ BlocksOverlap(MovedSpan(GetBlock(blocks, last'.id), last'.data),
                         GetBlock(blocks, last'.id), isWrappingEnabled)
        /\ \A i \in 1..Len(blocks) :
             blocks[i].id # last'.id
               => ~BlocksOverlap(MovedSpan(GetBlock(blocks, last'.id), last'.data), blocks[i],
                                 isWrappingEnabled) )
      => ( /\ last'.result = "true"
           /\ GetBlock(blocks', last'.id) = MovedSpan(GetBlock(blocks, last'.id), last'.data) )
    ]_vars

\* Three calls have made a "Work call" and a 23.5-hour "Nap" and then moved and
\* resized the "Nap" to 13:00-02:00, a span that overlaps the one it had at
\* every start it can have been created with.
C18_Witness ==
  /\ last.op = "updateBlock" /\ last.result = "true"
  /\ ~allowOverlap /\ ~isWrappingEnabled
  /\ calls = 3 /\ Len(blocks) = 2
  /\ last.data.has = {"start", "duration"}
  /\ GetBlock(blocks, last.id).title = "Nap"
  /\ \E i \in 1..2 : blocks[i].title = "Work call"


\* Whether the quarter hour that begins at t lies inside a placed block.  With
\* wrapping enabled a block that crosses midnight covers its tail after 0.
Covers(o, t, wrap) ==
  \/ JsMod(o.start, DAY) <= t /\ t < JsMod(o.start, DAY) + o.duration
  \/ wrap /\ t < JsMod(o.start, DAY) + o.duration - DAY

FreeAt(placedBlocks, t, wrap) ==
  \A i \in 1..Len(placedBlocks) : ~Covers(placedBlocks[i], t, wrap)

\* The free gaps of the day from 0 to 24: the longest runs of free quarter
\* hours.
DayGaps(placedBlocks, wrap) ==
  { [start |-> a, duration |-> b - a] : <<a, b>> \in
      { p \in Quarters \X (Quarters \cup {DAY}) :
          /\ p[1] < p[2]
          /\ \A t \in Quarters : (p[1] <= t /\ t < p[2]) => FreeAt(placedBlocks, t, wrap)
          /\ p[1] = 0 \/ ~FreeAt(placedBlocks, p[1] - Q, wrap)
          /\ p[2] = DAY \/ ~FreeAt(placedBlocks, p[2], wrap) } }

\* The free gaps of the day as a circle: a gap may run across midnight.
CircleGaps(placedBlocks) ==
  { [start |-> p[1], duration |-> p[2]] : p \in
      { p \in Quarters \X {k * Q : k \in 1..(DAY \div Q)} :
          /\ \A t \in Quarters :
               JsMod(t - p[1] + DAY, DAY) < p[2] => FreeAt(placedBlocks, t, TRUE)
          /\ ~FreeAt(placedBlocks, JsMod(p[1] - Q + DAY, DAY), TRUE)
          /\ ~FreeAt(placedBlocks, JsMod(p[1] + p[2], DAY), TRUE) } }

\* The starts of the shortest gaps that hold the duration.
BestFitStarts(gaps, duration) ==
  { g.start : g \in { g \in gaps : /\ g.duration >= duration
                                   /\ \A h \in gaps : h.duration >= duration
                                                        => g.duration <= h.duration } }

\* C19: when a free gap holds the duration, findBestGap returns the start of
\* a shortest such gap.  The gaps are those of the day from 0 to 24 or, with
\* wrapping enabled, those of the day as a circle: either reading is taken.
\* With wrapping disabled only blocks that end within the day are considered.
C19_BestFit ==
  ( /\ last.op = "called" /\ last.fn = "findBestGap"
    /\ isWrappingEnabled
       \/ \A i \in 1..Len(last.placedBlocks) :
            last.placedBlocks[i].start + last.placedBlocks[i].duration <= DAY
    /\ \/ BestFitStarts(DayGaps(last.placedBlocks, isWrappingEnabled), last.duration) # {}
       \/ /\ isWrappingEnabled
          /\ BestFitStarts(CircleGaps(last.placedBlocks), last.duration) # {} )
  => \/ last.start \in BestFitStarts(DayGaps(last.placedBlocks, isWrappingEnabled),
                                     last.duration)
     \/ /\ isWrappingEnabled
        /\ last.start \in BestFitStarts(CircleGaps(last.placedBlocks), last.duration)


LiesOver(placedBlocks, start, duration, wrap) ==
  \E t \in Quarters :
    /\ IF wrap THEN JsMod(t - JsMod(start, DAY) + DAY, DAY) < duration
       ELSE start <= t /\ t < start + duration
    /\ ~FreeAt(placedBlocks, t, wrap)

\* The quarter hours findValidPosition may return after a conflict at the
\* preferred start.
OpenQuarters(placedBlocks, duration, wrap) ==
  {h \in Quarters : /\ ~LiesOver(placedBlocks, h, duration, wrap)
                    /\ (wrap \/ h + duration <= DAY)}

\* C21: findValidPosition returns the preferred start when a block there lies
\* over no placed block; else the first quarter hour at which it lies over
\* none (and ends by 24:00 when wrapping is disabled); else the preferred start.
C21_ValidPosition ==
  (last.op = "called" /\ last.fn = "findValidPosition")
    => last.start =
         IF ~LiesOver(last.placedBlocks, last.start1, last.duration, isWrappingEnabled)
         THEN last.start1
         ELSE IF OpenQuarters(last.placedBlocks, last.duration, isWrappingEnabled) # {}
         THEN Least(OpenQuarters(last.placedBlocks, last.duration, isWrappingEnabled))
         ELSE last.start1


\* C22: findValidPosition and findBestGap return after a bounded number of
\* candidate positions: at most 96 steps of the scan and one pass over the
\* edges of the obstacles (two for an obstacle) with the two ends of the day,
\* whatever the obstacles, 96 obstacles of a quarter of an hour that cover
\* the day included; a scan that has begun returns.
C22_ScansReturn ==
  /\ [](search.loop \in {"valid", "gap"}
          => search.attempts <= (DAY \div Q) + 2 * Len(search.placedBlocks) + 2)
  /\ (search.pc \in {"scan", "sweep", "hours"}) ~> (search.pc = "returned")

\* findValidPosition has tried the 96 quarters of a day covered by 96
\* obstacles and has returned the preferred start.
C22_Witness ==
  /\ search.loop = "valid"
  /\ search.pc = "returned"
  /\ Len(search.placedBlocks) = DAY \div Q
  /\ search.attempts = DAY \div Q
  /\ search.tryStart = search.currentStart


\* C23: deserialize(serialize()) reproduces the collection: the same set of
\* ids, for each id the same title, start, duration, color and lock flag, and
\* the same wrap, overlap and time-format settings.
C23_RoundTrip ==
  [][(last'.op = "deserialize" /\ last'.source = "serialize")
       => /\ BlockIds(blocks') = BlockIds(blocks)
          /\ \A id \in BlockIds(blocks) : GetBlock(blocks', id) = GetBlock(blocks, id)
          /\ isWrappingEnabled' = isWrappingEnabled
          /\ allowOverlap' = allowOverlap
          /\ use24HourFormat' = use24HourFormat]_vars


\* C24: removeBlock(id) for an id of the collection returns true and removes
\* that block and no other, whether it is locked or not: every other block
\* keeps its id, start, duration and lock flag, and the wrap, overlap and
\* time-format settings stay as they were.
C24_RemoveExactlyOne ==
  [][(last'.op = "removeBlock" /\ HasBlock(blocks, last'.id))
       => /\ last'.result = "true"
          /\ BlockIds(blocks') = BlockIds(blocks) \ {last'.id}
          /\ \A id \in BlockIds(blocks') : GetBlock(blocks', id) = GetBlock(blocks, id)
          /\ Len(blocks') = Len(blocks) - 1
          /\ isWrappingEnabled' = isWrappingEnabled
          /\ allowOverlap' = allowOverlap
          /\ use24HourFormat' = use24HourFormat]_vars

\* A locked block has been removed and another block is left.
C24_Witness ==
  /\ last.op = "removeBlock"
  /\ last.result = "true"
  /\ last.reason = "locked"
  /\ Len(blocks) = 1
  /\ blocks[1].id # last.id


\* C25: setWrappingEnabled and setOverlapAllowed change their own flag and
\* nothing else: no block is added, removed, moved, resized or unlocked, also
\* when blocks of the collection overlap under the new setting.
C25_TogglesKeepBlocks ==
  [][/\ last'.op = "setWrappingEnabled"
          => blocks' = blocks /\ allowOverlap' = allowOverlap
                              /\ use24HourFormat' = use24HourFormat
     /\ last'.op = "setOverlapAllowed"
          => blocks' = blocks /\ isWrappingEnabled' = isWrappingEnabled
                              /\ use24HourFormat' = use24HourFormat]_vars

\* Overlap has just been disallowed over two blocks that conflict.
C25_Witness ==
  /\ last.op = "setOverlapAllowed"
  /\ ~allowOverlap
  /\ Len(blocks) = 2
  /\ HasConflict(blocks, blocks[1], NoExclude, FALSE, isWrappingEnabled)


\* C26: updateBlock is idempotent: the second of two calls updateBlock(id, data)
\* made in a row with the same arguments returns what the first returned and
\* leaves the collection as the first left it.
C26_UpdateIdempotent ==
  [][(/\ last.op = "updateBlock" /\ last'.op = "updateBlock"
      /\ last'.id = last.id /\ last'.data = last.data)
       => last'.result = last.result /\ blocks' = blocks]_vars

\* The same move of start and duration has been made twice in a row, and both
\* calls returned true.
C26_Witness ==
  /\ last.op = "updateBlock"
  /\ last.source = "repeated"
  /\ last.result = "true"
  /\ last.data.has = {"start", "duration"}
  /\ ~allowOverlap


\* C27: a shuffle (a strategy of executeStrategy, or simpleShuffle) on a
\* collection with no block, or with no unlocked block, is a no-op: no block
\* is added or removed and no block's start or duration changes.
C27_NothingToShuffle ==
  [][(last'.op = "shuffle" /\ Len(ShuffleCandidates(blocks)) = 0)
       => blocks' = blocks]_vars

\* A shuffle has been asked for over a collection of locked blocks only, one
\* of them away from 0.
C27_Witness ==
  /\ last.op = "shuffle"
  /\ last.result = "none"
  /\ Len(blocks) > 0
  /\ \A k \in 1..Len(blocks) : blocks[k].isLocked
  /\ \E k \in 1..Len(blocks) : blocks[k].start > 0


\* The summed duration of a collection.
TotalDuration(bs) ==
  LET sum[k \in 0..Len(bs)] == IF k = 0 THEN 0 ELSE sum[k - 1] + bs[k].duration
  IN sum[Len(bs)]

\* The blocks of a collection in the order of their starts lie back to back
\* from hour 0, the longer ones first.
PackedFromZero(bs) ==
  \E order \in Orders(BlockIds(bs)) :
    LET b(k) == GetBlock(bs, order[k])
    IN /\ Len(bs) > 0 => b(1).start = 0
       /\ \A k \in 1..(Len(bs) - 1) :
            /\ b(k + 1).start = b(k).start + b(k).duration
            /\ b(k + 1).duration <= b(k).duration

\* C28: with overlap not allowed, wrap-around off, no locked block and a total
\* duration of 24 hours at most, the compact strategy leaves the blocks back
\* to back from hour 0 in non-increasing order of duration, with no gap
\* between consecutive blocks.
C28_CompactPacks ==
  ( /\ last.op = "shuffle"
    /\ last.strategy = "compact"
    /\ ~allowOverlap
    /\ ~isWrappingEnabled
    /\ \A k \in 1..Len(blocks) : ~blocks[k].isLocked
    /\ TotalDuration(blocks) <= DAY )
  => PackedFromZero(blocks)


\* C29: addBlock with malformed data (an empty or missing title, a duration
\* of 0 or less, or a start below 0) throws at the construction of the Block
\* and leaves the collection unchanged: nothing is inserted.
C29_MalformedAddThrows ==
  [][(/\ last'.op = "addBlock"
      /\ calls' = calls + 1
      /\ \/ last'.data.title = ""
         \/ last'.data.duration <= 0
         \/ last'.data.start < 0)
       => (last'.result = "throws" /\ blocks' = blocks)]_vars

\* An addBlock with a duration of 0 has thrown on a collection that holds a
\* block.
C29_Witness ==
  /\ last.op = "addBlock"
  /\ last.result = "throws"
  /\ last.data.duration = 0
  /\ Len(blocks) > 0


\* C30: after every operation that changes the collection or a block
\* (addBlock, updateBlock, removeBlock, duplicateBlock, clearTimeline,
\* deserialize, toggleLock, setLocked, the setting toggles, a shuffle), the
\* last snapshot emitted through 'timeline:save-current' equals serialize()
\* of the current state.
C30_SnapshotIsCurrent ==
  [][(Serialize(blocks', isWrappingEnabled', allowOverlap', use24HourFormat')
        # Serialize(blocks, isWrappingEnabled, allowOverlap, use24HourFormat))
       => saved' = Emitted(Serialize(blocks', isWrappingEnabled', allowOverlap',
                                     use24HourFormat'))]_vars


\* C31: the conflict test of the strategies (checkForTimeConflicts, through
\* timeRangesOverlap) and the conflict test of the collection (hasConflict,
\* through blocksOverlap) agree: for every pair of spans and every wrap
\* setting one reports an overlap exactly when the other does.
C31_ConflictTestsAgree ==
  (last.op = "called" /\ last.fn = "conflictTests") => last.result = last.other


(***************************************************************************)
(* Block: the pointer and keyboard handlers, and the resize flag of the    *)
(* Timeline.  One pointer is down at a time: a gesture begins with a       *)
(* pointerdown on a block or on one of its resize handles, previews every  *)
(* pointermove by writing to the block, and ends with the pointerup.  Calls *)
(* of the Timeline and key presses come between gestures.                  *)
(***************************************************************************)
\* The pointer and key events of a behaviour.
MaxPointerEvents == 4

\* The horizontal travel of the pointer since the pointerdown, as the hours
\* handlePointerMove computes from it: two hours back, some minutes either
\* way, a little over two hours on.
GestureDeltas == {0 - 2 * HOUR, 0 - 50, 20, 2 * HOUR + 10}

Idle == gesture.kind = "none"

\* What the gesture handlers leave alone.
GestureFrame == UNCHANGED <<isWrappingEnabled, allowOverlap, calls, search, use24HourFormat>>

\* One more pointer or key event.
GestureEvent(g) == [g EXCEPT !.events = @ + 1]

\* A handlePointerDown without the test of the lock.
PointerDownIgnoresNone(b) == FALSE

\* handlePointerDown returns at once on a locked block.
PointerDownIgnores(b) == b.isLocked

\* Block.handlePointerDown on the body of the block.
PointerDown(id) ==
  /\ Idle
  /\ gesture.events < MaxPointerEvents
  /\ HasBlock(blocks, id)
  /\ LET b == GetBlock(blocks, id)
     IN IF PointerDownIgnores(b)
        THEN /\ gesture' = GestureEvent(gesture)
             /\ last' = [NoCall EXCEPT !.op = "pointerDown", !.id = id, !.result = "ignored"]
        ELSE /\ gesture' = GestureEvent([gesture EXCEPT
                             !.kind = "drag", !.id = id, !.originalStart = b.start,
                             !.startBefore = b.start, !.durationBefore = b.duration])
             /\ last' = [NoCall EXCEPT !.op = "pointerDown", !.id = id, !.result = "drag"]
  /\ UNCHANGED <<blocks, saved>>
  /\ GestureFrame

\* Block.handleResizeStart and Block.handleResizeLeftStart, on the handles,
\* which updateLockVisuals hides while the block is locked; the Timeline's
\* listener of 'block:resize:start' sets isResizeInProgress.
ResizeStart(id, kind) ==
  /\ Idle
  /\ gesture.events < MaxPointerEvents
  /\ HasBlock(blocks, id)
  /\ ~GetBlock(blocks, id).isLocked
  /\ LET b == GetBlock(blocks, id)
     IN gesture' = GestureEvent([gesture EXCEPT
                     !.kind = kind, !.id = id,
                     !.originalStart = IF kind = "resizeLeft" THEN b.start ELSE @,
                     !.originalDuration = b.duration,
                     !.isResizeInProgress = TRUE,
                     !.startBefore = b.start, !.durationBefore = b.duration])
  /\ last' = [NoCall EXCEPT !.op = "resizeStart", !.id = id, !.result = kind]
  /\ UNCHANGED <<blocks, saved>>
  /\ GestureFrame

\* The start handlePointerMove previews: held in the day, or taken modulo the
\* day when wrapping is enabled, and rounded to the quarter hour.
DragStart(newStart, duration, wrap) ==
  IF ~wrap THEN QuarterRound(Max(0, Min(DAY - duration, newStart)))
  ELSE QuarterRound(IF JsMod(newStart, DAY) < 0 THEN JsMod(newStart, DAY) + DAY
                    ELSE JsMod(newStart, DAY))

\* The duration handlePointerMove previews for the right handle.
ResizeDuration(start, newDuration, wrap) ==
  LET least == Max(Q, newDuration)
  IN QuarterRound(IF ~wrap /\ start + least > DAY THEN DAY - start ELSE least)

\* The start and duration handlePointerMove previews for the left handle.
ResizeLeft(originalStart, originalDuration, deltaHours, wrap) ==
  LET short == originalDuration - deltaHours < Q
      newDuration == IF short THEN Q ELSE originalDuration - deltaHours
      newStart == IF short THEN originalStart + originalDuration - Q
                  ELSE originalStart + deltaHours
      held == IF ~wrap THEN Max(0, newStart)
              ELSE IF JsMod(newStart, DAY) < 0 THEN JsMod(newStart, DAY) + DAY
              ELSE JsMod(newStart, DAY)
  IN [start |-> QuarterRound(held), duration |-> QuarterRound(newDuration)]

\* Block.handlePointerMove: the preview is written to the block itself.
PointerMove(deltaHours) ==
  /\ ~Idle
  /\ gesture.events < MaxPointerEvents
  /\ LET b == GetBlock(blocks, gesture.id)
         left == ResizeLeft(gesture.originalStart, gesture.originalDuration, deltaHours,
                            isWrappingEnabled)
         moved == IF gesture.kind = "drag"
                  THEN [b EXCEPT !.start = DragStart(gesture.originalStart + deltaHours,
                                                     b.duration, isWrappingEnabled)]
                  ELSE IF gesture.kind = "resize"
                  THEN [b EXCEPT !.duration =
                                   ResizeDuration(b.start, gesture.originalDuration + deltaHours,
                                                  isWrappingEnabled)]
                  ELSE [b EXCEPT !.start = left.start, !.duration = left.duration]
     IN blocks' = SetBlock(blocks, gesture.id, moved)
  /\ gesture' = GestureEvent(gesture)
  /\ last' = [NoCall EXCEPT !.op = "pointerMove", !.id = gesture.id]
  /\ UNCHANGED saved
  /\ GestureFrame

\* A pointerup that commits whatever the preview shows.
RevertsNever(bs, b, overlap, wrap) == FALSE

\* Whether handlePointerUp reverts the block.
Reverts(bs, b, overlap, wrap) == HasConflict(bs, b, NoExclude, overlap, wrap)

\* The block as handlePointerUp reverts it.
Reverted(b, g) ==
  IF g.kind = "drag" THEN [b EXCEPT !.start = g.originalStart]
  ELSE IF g.kind = "resize" THEN [b EXCEPT !.duration = g.originalDuration]
  ELSE [b EXCEPT !.start = g.originalStart, !.duration = g.originalDuration]

\* Block.handlePointerUp: on a conflict the block goes back to what the
\* pointerdown recorded, else the previewed start and duration go to
\* updateBlock.  After a resize the 'block:resize:end' listener of the
\* Timeline arms the grace-period timer, replacing the one that is pending.
PointerUp ==
  /\ GestureFrame
  /\ ~Idle
  /\ gesture.events < MaxPointerEvents
  /\ LET b == GetBlock(blocks, gesture.id)
         data == [NoData EXCEPT !.has = {"start", "duration"}, !.start = b.start,
                                !.duration = b.duration]
         r == UpdateBlockCore(blocks, gesture.id, data, allowOverlap, isWrappingEnabled)
         wasResizing == gesture.kind \in {"resize", "resizeLeft"}
     IN IF Reverts(blocks, b, allowOverlap, isWrappingEnabled)
        THEN /\ blocks' = SetBlock(blocks, gesture.id, Reverted(b, gesture))
             /\ last' = [NoCall EXCEPT !.op = "pointerUp", !.id = gesture.id,
                                       !.result = "reverted", !.source = gesture.kind]
             /\ gesture' = GestureEvent([gesture EXCEPT !.kind = "none",
                                                        !.timer = @ \/ wasResizing])
             /\ UNCHANGED saved
        ELSE /\ blocks' = r.bs
             /\ last' = [NoCall EXCEPT !.op = "pointerUp", !.id = gesture.id,
                                       !.result = r.result, !.source = gesture.kind]
             /\ gesture' = IF r.result = "throws" THEN GestureEvent(gesture)
                           ELSE GestureEvent([gesture EXCEPT !.kind = "none",
                                                             !.timer = @ \/ wasResizing])
             /\ SaveIf(r.result = "true")

\* The grace-period timer of the Timeline fires, 500 ms after the resize end
\* that armed it: setResizeInProgress(false).
GraceTimer ==
  /\ gesture.timer
  /\ gesture' = [gesture EXCEPT !.timer = FALSE, !.isResizeInProgress = FALSE]
  /\ last' = [NoCall EXCEPT !.op = "graceTimer"]
  /\ UNCHANGED <<blocks, saved>>
  /\ GestureFrame

\* A handleKeyDown that leaves a locked block alone.
KeyMovesUnlocked(b, key, wrap) == FALSE

\* Whether ArrowLeft or ArrowRight moves the block.
KeyMoves(b, key, wrap) ==
  IF key = "ArrowLeft" THEN b.start > 0
  ELSE b.start < DAY - b.duration \/ wrap

\* The start the key press writes to the block, and the start it writes back
\* on a conflict.
KeyStart(b, key, wrap) ==
  IF key = "ArrowLeft" THEN Max(0, b.start - Q)
  ELSE IF wrap THEN JsMod(b.start + Q, DAY)
  ELSE Min(DAY - b.duration, b.start + Q)

KeyBack(start, key) ==
  IF key = "ArrowLeft" THEN start + Q
  ELSE IF start - Q < 0 THEN start - Q + DAY
  ELSE start - Q

\* Block.handleKeyDown with ArrowLeft or ArrowRight on the focused block.
KeyDown(id, key) ==
  /\ GestureFrame
  /\ Idle
  /\ gesture.events < MaxPointerEvents
  /\ HasBlock(blocks, id)
  /\ LET b == GetBlock(blocks, id)
         moved == [b EXCEPT !.start = KeyStart(b, key, isWrappingEnabled)]
         bs == SetBlock(blocks, id, moved)
         r == UpdateBlockCore(bs, id, StartOnly(moved.start), allowOverlap, isWrappingEnabled)
     IN IF ~KeyMoves(b, key, isWrappingEnabled)
        THEN /\ UNCHANGED <<blocks, saved>>
             /\ last' = [NoCall EXCEPT !.op = "keyDown", !.id = id, !.source = key,
                                       !.result = "none"]
        ELSE IF HasConflict(bs, moved, NoExclude, allowOverlap, isWrappingEnabled)
        THEN /\ blocks' = SetBlock(blocks, id, [b EXCEPT !.start = KeyBack(moved.start, key)])
             /\ last' = [NoCall EXCEPT !.op = "keyDown", !.id = id, !.source = key,
                                       !.result = "reverted"]
             /\ UNCHANGED saved
        ELSE /\ blocks' = r.bs
             /\ last' = [NoCall EXCEPT !.op = "keyDown", !.id = id, !.source = key,
                                       !.result = r.result]
             /\ SaveIf(r.result = "true")
  /\ gesture' = GestureEvent(gesture)

\* Block.handleKeyDown with Delete: removeBlock.
KeyDelete(id) ==
  /\ GestureFrame
  /\ Idle
  /\ gesture.events < MaxPointerEvents
  /\ HasBlock(blocks, id)
  /\ LET r == RemoveBlockCore(blocks, id)
     IN /\ blocks' = r.bs
        /\ last' = [NoCall EXCEPT !.op = "keyDown", !.id = id, !.source = "Delete",
                                  !.result = r.result]
  /\ SaveIf(last'.result = "true")
  /\ gesture' = GestureEvent(gesture)

\* No pointer or key event has reached a block yet.
Untouched == gesture.events = 0

\* The timeline under the pointer and the keyboard: the blocks are added and
\* locked and the settings chosen before the first gesture; clicks on the grid
\* come between gestures.
NextGestures ==
  \/ Untouched /\ \E d \in AddInputs : AddBlock(d)
  \/ Idle /\ \E c \in ClickHours, t \in AddTemplates : GridClickCreate(c, t)
  \/ Untouched /\ \E id \in Ids : ToggleLock(id)
  \/ Untouched /\ \E b \in BOOLEAN : SetWrappingEnabled(b)
  \/ Untouched /\ \E b \in BOOLEAN : SetOverlapAllowed(b)
  \/ \E id \in Ids : PointerDown(id)
  \/ \E id \in Ids, kind \in {"resize", "resizeLeft"} : ResizeStart(id, kind)
  \/ \E d \in GestureDeltas : PointerMove(d)
  \/ PointerUp
  \/ GraceTimer
  \/ \E id \in Ids, key \in {"ArrowLeft", "ArrowRight"} : KeyDown(id, key)
  \/ \E id \in Ids : KeyDelete(id)

SpecGestures == Init /\ [][NextGestures]_vars


\* The events a user's gesture on a block is made of.
GestureOps == {"pointerDown", "resizeStart", "pointerMove", "pointerUp", "keyDown"}

\* C32: while a block is locked, no user gesture on it (pointer drag, left or
\* right resize, ArrowLeft or ArrowRight key) changes its start or duration.
C32_LockedUnderGestures ==
  [][last'.op \in GestureOps
       => \A k \in 1..Len(blocks) :
            (blocks[k].isLocked /\ HasBlock(blocks', blocks[k].id))
              => /\ GetBlock(blocks', blocks[k].id).start = blocks[k].start
                 /\ GetBlock(blocks', blocks[k].id).duration = blocks[k].duration]_vars


\* Every block of the collection ends by the end of the day.
EndsInDay(bs) == \A k \in 1..Len(bs) : bs[k].start + bs[k].duration <= DAY

\* C33: with wrap-around off and overlap not allowed, if every block has
\* start + duration <= 24 before a shuffle strategy runs, every block has it
\* after the run: no strategy places a block across the end of the day.
C33_ShuffleKeepsInDay ==
  [][(/\ last'.op = "shuffle"
      /\ ~allowOverlap
      /\ ~isWrappingEnabled
      /\ EndsInDay(blocks))
       => EndsInDay(blocks')]_vars


\* C34: within one run of a shuffle strategy, the position the strategy
\* records for a block in its list of placed blocks is the start the block has
\* in the collection after the updateBlock call that goes with it.
C34_PlacedWhereRecorded ==
  (last.op = "shuffle" /\ last.strategy \in Strategies /\ last.result = "done")
    => \A i \in 1..Len(last.placedBlocks) :
         /\ HasBlock(blocks, last.placedBlocks[i].id)
         /\ GetBlock(blocks, last.placedBlocks[i].id).start = last.placedBlocks[i].start


\* Whether the first span ends where the second starts, on the 24-hour clock
\* when wrap-around is enabled.
Touches(start1, end1, start2, wrap) ==
  IF wrap THEN JsMod(end1, DAY) = JsMod(start2, DAY) ELSE end1 = start2

\* Whether two spans share time: on the line of hours when wrap-around is
\* off, on the 24-hour clock when it is on.
SharesTime(start1, end1, start2, end2, wrap) ==
  IF ~wrap THEN start1 < end2 /\ start2 < end1
  ELSE \E t \in 0..(DAY \div Q - 1) :
         /\ \E n \in 0..1 : start1 <= t * Q + n * DAY /\ t * Q + n * DAY < end1
         /\ \E n \in 0..1 : start2 <= t * Q + n * DAY /\ t * Q + n * DAY < end2

\* C35: two blocks whose spans only touch (the end of one is the start of the
\* other, modulo 24 when wrap-around is enabled, a block ending at midnight
\* beside a block starting at 0 included) are never reported as conflicting
\* by Timeline.hasConflict, in either wrap mode.
C35_TouchingIsNoConflict ==
  ( /\ last.op = "called"
    /\ last.fn = "conflictTests"
    /\ \/ Touches(last.start1, last.end1, last.start2, isWrappingEnabled)
       \/ Touches(last.start2, last.end2, last.start1, isWrappingEnabled)
    /\ ~SharesTime(last.start1, last.end1, last.start2, last.end2, isWrappingEnabled) )
  => ~last.result


\* C36: whenever findBestGap returns the start of a gap it found sufficient,
\* the span from that start over the duration lies over none of the placed
\* blocks it was given, blocks that cross midnight with wrap-around enabled
\* included.
C36_GapIsFree ==
  ( /\ last.op = "called"
    /\ last.fn = "findBestGap"
    /\ Len(last.placedBlocks) > 0
    /\ SuitableGaps(FindGaps(last.placedBlocks, isWrappingEnabled), last.duration) # {} )
  => ~LiesOver(last.placedBlocks, last.start, last.duration, isWrappingEnabled)


\* C37: Timeline.isResizeInProgress is true from a 'block:resize:start' event
\* to the 'block:resize:end' event that matches it, so that clicks on the grid
\* are ignored during a resize; the grace-period timer armed by an earlier
\* resize end does not clear the flag while a later resize is under way.
C37_FlagDuringResize ==
  gesture.kind \in {"resize", "resizeLeft"} => gesture.isResizeInProgress


\* C38: no shuffle (a strategy of executeStrategy, or simpleShuffle) adds or
\* removes a block or changes a block's duration, title, color or lock flag:
\* the ids are the same before and after, and only the start of unlocked
\* blocks may differ.
C38_ShuffleMovesStartsOnly ==
  [][last'.op = "shuffle"
       => /\ Len(blocks') = Len(blocks)
          /\ \A k \in 1..Len(blocks) :
               /\ blocks'[k] = [blocks[k] EXCEPT !.start = blocks'[k].start]
               /\ blocks[k].isLocked => blocks'[k].start = blocks[k].start]_vars

\* A strategy has run over a locked block and an unlocked one, and has put
\* the unlocked one an hour into the day, a start no caller asked for.
C38_Witness ==
  /\ last.op = "shuffle"
  /\ last.result = "done"
  /\ Len(blocks) = 2
  /\ \E i, j \in 1..2 :
       /\ blocks[i].isLocked
       /\ ~blocks[j].isLocked
       /\ blocks[j].start = HOUR
       /\ blocks[j].title = "Work call"


\* Whether the block of the gesture, where the preview has put it, conflicts
\* with another block: hasConflict reports it, or the two share time.
GestureConflicts ==
  LET b == GetBlock(blocks, gesture.id)
  IN \/ HasConflictAlways(blocks, b, NoExclude, allowOverlap, isWrappingEnabled)
     \/ \E k \in 1..Len(blocks) :
          /\ blocks[k].id # b.id
          /\ SharesTime(b.start, b.start + b.duration, blocks[k].start,
                        blocks[k].start + blocks[k].duration, isWrappingEnabled)

\* C39: when a drag or a resize of an unlocked block ends (pointerup) at a
\* position that conflicts with another block while overlap is not allowed,
\* the block's start and duration after the pointerup are those it had before
\* the gesture began, and no other block is changed.
C39_ConflictReverts ==
  [][(/\ last'.op = "pointerUp"
      /\ ~allowOverlap
      /\ GestureConflicts)
       => /\ Len(blocks') = Len(blocks)
          /\ \A k \in 1..Len(blocks) :
               IF blocks[k].id = gesture.id
               THEN blocks'[k] = [blocks[k] EXCEPT !.start = gesture.startBefore,
                                                   !.duration = gesture.durationBefore]
               ELSE blocks'[k] = blocks[k]]_vars

\* A resize by the left handle that ran over another block has been undone:
\* the pointer moved before it went up.
C39_Witness ==
  /\ last.op = "pointerUp"
  /\ last.result = "reverted"
  /\ last.source = "resizeLeft"
  /\ gesture.events >= 3
  /\ Len(blocks) = 2
  /\ ~allowOverlap


\* C40: the overlap predicates are symmetric: for every pair of spans and
\* both wrap settings blocksOverlap(a, b) equals blocksOverlap(b, a), and
\* timeRangesOverlap(s1, e1, s2, e2, w) equals timeRangesOverlap(s2, e2, s1, e1, w).
C40_OverlapSymmetric ==
  (last.op = "called" /\ last.fn \in {"blocksOverlap", "timeRangesOverlap"})
    => last.result = last.other

\* blocksOverlap has been asked, the day wrapping, about a span that crosses
\* midnight and one that does not, and reports an overlap.
C40_Witness ==
  /\ last.op = "called"
  /\ last.fn = "blocksOverlap"
  /\ isWrappingEnabled
  /\ last.start1 = 23 * HOUR /\ last.end1 = DAY + HOUR
  /\ last.start2 = HOUR /\ last.end2 = 2 * HOUR
  /\ last.result

====
